---- MODULE Spec2Model ----
(***************************************************************************)
(* A model of the resumable OPDS crawler: the traversal engine             *)
(* (internal/crawler, as found in src/internal/types/resumable.go), the    *)
(* storing consumer seen from the engine, the storing error handler with   *)
(* the fail table, and the resume driver of cmd/server/main.go.            *)
(*                                                                         *)
(* Strings that the code takes apart with regular expressions are tuples   *)
(* of their segments: the id "tag:author:7" is <<"tag","author","7">>, the *)
(* path "/opds/author/7" is <<"opds","author","7">>.  A Go pointer is a    *)
(* sequence of length 0 (nil) or 1.                                        *)
(***************************************************************************)
EXTENDS Integers, Sequences, FiniteSets, TLC

(* ------------------------------ bounds --------------------------------- *)

\* Failures (failed fetches, store errors, handler errors) injected in one behaviour.
MaxFaults == 2

\* Process runs in one behaviour: the fresh crawl and the resume runs after it.
MaxRuns == 2

(* ------------------------- program constants --------------------------- *)

FeedTypeAuthors == 1
FeedTypeAuthor == 2
FeedTypeBooks == 3
FeedTypeSequences == 4
FeedTypeSeries == 5

\* The batch size the resume driver asks the fail store for.
FailsLimit == 100

linkTypeCatalog == "application/atom+xml;profile=opds-catalog"
linkRelImage == "http://opds-spec.org/image"
linkRelNext == "next"

(* ------------------------------ pointers ------------------------------- *)

Nil == <<>>
Ref(x) == <<x>>
Deref(p) == p[1]

(* ------------------------------- URLs ---------------------------------- *)

U(path, query) == [path |-> path, query |-> query]
NoUrl == U(<<>>, "")

\* An href the URL parser rejects.
BadHref == U(<<"%zz">>, "")
ParseOkAlways(href) == TRUE
ParseOk(href) == href # BadHref

\* url.URL.ResolveReference for the references the site uses: an absolute path
\* replaces path and query, a query-only reference keeps the base path.
ResolveReference(base, ref) ==
    IF ref.path = <<>> THEN U(base.path, ref.query) ELSE ref

\* url.URL.String and url.Parse: the text form is the path followed, when the
\* query is not empty, by "?" and the query.
UrlString(u) == IF u.query = "" THEN <<u.path>> ELSE <<u.path, "?", u.query>>
ParseUrl(s) == U(s[1], IF Len(s) = 3 THEN s[3] ELSE "")

(* --------------------------- regular expressions ----------------------- *)

Digits == {"1", "2", "7", "8", "9"}

\* strings.TrimSpace on the padded strings of the site.
TrimSpace(s) ==
    CASE s = " next " -> "next"
      [] s = " application/atom+xml;profile=opds-catalog " ->
           "application/atom+xml;profile=opds-catalog"
      [] OTHER -> s

regTagAuthors(id) == Len(id) = 3 /\ id[1] = "tag" /\ id[2] = "authors"
regTagAuthor(id) == Len(id) = 3 /\ id[1] = "tag" /\ id[2] = "author" /\ id[3] \in Digits
regTagBio(id) ==
    Len(id) = 4 /\ id[1] = "tag" /\ id[2] = "author" /\ id[3] = "bio" /\ id[4] \in Digits
regTagAuthorBooks(id) ==
    Len(id) = 4 /\ id[1] = "tag" /\ id[2] = "author" /\ id[3] \in Digits /\ id[4] = "alphabet"
regTagBook(id) == Len(id) = 3 /\ id[1] = "tag" /\ id[2] = "book"
regTagSeries(id) == Len(id) = 3 /\ id[1] = "tag" /\ id[2] = "sequences"
regTagSequence(id) == Len(id) = 3 /\ id[1] = "tag" /\ id[2] = "sequence" /\ id[3] \in Digits
regHrefAuthor(href) ==
    href.query = "" /\ Len(href.path) = 3 /\ href.path[1] = "opds"
        /\ href.path[2] = "author" /\ href.path[3] \in Digits
regHrefAuthorAlt(uri) == Len(uri) = 2 /\ uri[1] = "a" /\ uri[2] \in Digits
regHrefSequence(href) ==
    href.query = "" /\ Len(href.path) = 3 /\ href.path[1] = "opds"
        /\ href.path[2] = "sequencebooks" /\ href.path[3] \in Digits
regLinkTypeImage(t) == t \in {"image/jpeg", "image/png"}
\* A feed title is <<prefix, rest>>.
regTitleAuthorBooks(title) == Len(title) = 2 /\ title[1] = "Knigi avtora"

(* ------------------------------ entities ------------------------------- *)

\* An empty avatar is the empty text <<>>.
Author(id, name, bio, avatar) == [id |-> id, name |-> name, bio |-> bio, avatar |-> avatar]
Series(id, title) == [id |-> id, title |-> title]
Book(id, title, authors) == [id |-> id, title |-> title, authors |-> authors]

(* --------------------------- resumable feeds --------------------------- *)

ResumableFeed(url, type, author, series) ==
    [url |-> url, type |-> type, author |-> author, series |-> series]
\* A descriptor that names the root index whatever index failed.
MakeResumableAuthorsOfRoot(u) ==
    ResumableFeed(U(<<"opds", "authorsindex">>, ""), FeedTypeAuthors, Nil, Nil)
MakeResumableAuthors(u) == ResumableFeed(u, FeedTypeAuthors, Nil, Nil)
MakeResumableAuthor(u, author) == ResumableFeed(u, FeedTypeAuthor, author, Nil)
\* A descriptor of a books feed that leaves the author out.
MakeResumableBooksDropAuthor(u, author) == ResumableFeed(u, FeedTypeBooks, Nil, Nil)
MakeResumableBooks(u, author) == ResumableFeed(u, FeedTypeBooks, author, Nil)
MakeResumableSequences(u) == ResumableFeed(u, FeedTypeSequences, Nil, Nil)
MakeResumableSeries(u, series) == ResumableFeed(u, FeedTypeSeries, Nil, series)

(* ----------------------------- the upstream ---------------------------- *)

Link(rel, type, href) == [rel |-> rel, type |-> type, href |-> href]
Catalog(path) == Link("subsection", linkTypeCatalog, U(path, ""))
Entry(id, title, content, links, authors) ==
    [id |-> id, title |-> title, content |-> content, links |-> links, authors |-> authors]
Feed(title, links, entries) == [title |-> title, links |-> links, entries |-> entries]

AuthorsRoot == U(<<"opds", "authorsindex">>, "")
SeriesRoot == U(<<"opds", "sequencesindex">>, "")

BookEntry(n, authors) == Entry(<<"tag", "book", n>>, "Book", "", <<>>, authors)

AuthorPage(n, bio, withBooks) ==
    Feed(<<"Knigi avtora", n>>, <<>>,
         (IF bio = "" THEN <<>>
          ELSE <<Entry(<<"tag", "author", "bio", n>>, "About", bio,
                       <<Link("related", linkTypeCatalog, U(<<"opds", "x">>, "")),
                         Link(linkRelImage, "image/jpeg", U(<<"i", n>>, ""))>>, <<>>)>>)
         \o <<Entry(<<"tag", "author", n, "series">>, "By series", "",
                    <<Catalog(<<"opds", "authorsequences", n>>)>>, <<>>)>>
         \o (IF withBooks
             THEN <<Entry(<<"tag", "author", n, "alphabet">>, "By alphabet", "",
                          <<Catalog(<<"opds", "authorbooks", n>>)>>, <<>>)>>
             ELSE <<>>))

\* The site the crawler walks: what each URL answers when the fetch succeeds.
Upstream(u) ==
    CASE u = AuthorsRoot ->
           Feed(<<"Authors">>,
                <<Link(" next ", linkTypeCatalog, U(<<>>, "page=2"))>>,
                <<Entry(<<"tag", "authors", "A">>, "A", "",
                        <<Link("alternate", "text/html", U(<<"a">>, "")),
                          Catalog(<<"opds", "authorsindex", "A">>)>>, <<>>),
                  Entry(<<"tag", "other", "x">>, "?", "", <<>>, <<>>),
                  Entry(<<"tag", "author", "1">>, "One", "",
                        <<Catalog(<<"opds", "author", "1">>),
                          Catalog(<<"opds", "author", "2">>)>>, <<>>)>>)
      [] u = U(<<"opds", "authorsindex", "A">>, "") ->
           Feed(<<"Authors A">>, <<>>,
                <<Entry(<<"tag", "author", "2">>, "Two", "",
                        <<Catalog(<<"opds", "author", "2">>)>>, <<>>),
                  Entry(<<"tag", "author", "7">>, "Seven", "",
                        <<Catalog(<<"opds", "author", "7">>)>>, <<>>)>>)
      [] u = U(<<"opds", "authorsindex">>, "page=2") ->
           Feed(<<"Authors 2">>, <<>>,
                <<Entry(<<"tag", "author", "8">>, "Eight", "",
                        <<Catalog(<<"opds", "authorbooks", "8">>)>>, <<>>),
                  Entry(<<"tag", "authors", "B">>, "B", "",
                        <<Link("subsection", linkTypeCatalog, BadHref)>>, <<>>)>>)
      [] u = U(<<"opds", "author", "1">>, "") -> AuthorPage("1", "bio one", TRUE)
      [] u = U(<<"opds", "author", "2">>, "") -> AuthorPage("2", "", TRUE)
      [] u = U(<<"opds", "author", "7">>, "") -> AuthorPage("7", "bio seven", FALSE)
      [] u = U(<<"opds", "author", "8">>, "") -> AuthorPage("8", "bio eight", TRUE)
      [] u = U(<<"opds", "author", "9">>, "") -> AuthorPage("9", "bio nine", TRUE)
      [] u = U(<<"opds", "authorbooks", "1">>, "") ->
           Feed(<<"Books of One">>,
                <<Link(linkRelNext, linkTypeCatalog, U(<<>>, "page=2"))>>,
                <<BookEntry("1", <<<<"a", "1">>, <<"a", "9">>, <<"a", "1">>>>),
                  BookEntry("1", <<<<"a", "1">>>>)>>)
      [] u = U(<<"opds", "authorbooks", "1">>, "page=2") ->
           Feed(<<"Books of One">>, <<>>,
                <<BookEntry("2", <<<<"a", "1">>>>)>>)
      [] u = U(<<"opds", "authorbooks", "2">>, "") ->
           Feed(<<"Books of Two">>,
                <<Link(linkRelNext, linkTypeCatalog, U(<<>>, "page=2"))>>,
                <<BookEntry("3", <<<<"a", "2">>>>),
                  Entry(<<"tag", "other", "y">>, "?", "", <<>>, <<>>)>>)
      [] u = U(<<"opds", "authorbooks", "2">>, "page=2") ->
           Feed(<<"Books of Two">>,
                <<Link(linkRelNext, linkTypeCatalog, U(<<>>, "page=3"))>>,
                <<Entry(<<"tag", "other", "w">>, "?", "", <<>>, <<>>)>>)
      [] u = SeriesRoot ->
           Feed(<<"Series">>,
                <<Link(linkRelNext, linkTypeCatalog, U(<<>>, "page=2"))>>,
                <<Entry(<<"tag", "sequences", "S">>, "S", "",
                        <<Catalog(<<"opds", "sequencesindex", "S">>)>>, <<>>),
                  Entry(<<"tag", "sequence", "1">>, "Saga", "",
                        <<Catalog(<<"opds", "sequencebooks", "1">>)>>, <<>>)>>)
      [] u = U(<<"opds", "sequencesindex", "S">>, "") ->
           Feed(<<"Series S">>, <<>>,
                <<Entry(<<"tag", "sequence", "2">>, "Cycle", "",
                        <<Catalog(<<"opds", "sequencebooks", "2">>)>>, <<>>)>>)
      [] u = U(<<"opds", "sequencesindex">>, "page=2") ->
           Feed(<<"Series 2">>, <<>>,
                <<Entry(<<"tag", "other", "z">>, "?", "", <<>>, <<>>),
                  Entry(<<"tag", "sequence", "7">>, "Void", "",
                        <<Catalog(<<"opds", "sequencebooks", "7">>)>>, <<>>)>>)
      [] u = U(<<"opds", "sequencebooks", "7">>, "") ->
           Feed(<<"Void">>, <<>>,
                <<Entry(<<"tag", "other", "v">>, "?", "", <<>>, <<>>)>>)
      [] u = U(<<"opds", "sequencebooks", "1">>, "") ->
           Feed(<<"Saga">>, <<>>,
                <<BookEntry("1", <<<<"a", "1">>, <<"a", "9">>>>),
                  BookEntry("4", <<<<"a", "8">>>>)>>)
      [] u = U(<<"opds", "sequencebooks", "2">>, "") ->
           Feed(<<"Cycle">>, <<>>,
                <<BookEntry("3", <<<<"a", "2">>>>)>>)
      [] OTHER -> Feed(<<"">>, <<>>, <<>>)

(* ------------------------------ link selector -------------------------- *)

Min(S) == CHOOSE x \in S : \A y \in S : x <= y

TrimLink(link) == [link EXCEPT !.rel = TrimSpace(link.rel), !.type = TrimSpace(link.type)]

\* The matchers the call sites of chooseLink pass: TRUE when the matcher
\* reports no mismatch.
isCatalog(link) == link.type = linkTypeCatalog
isAuthorLink(link) == link.type = linkTypeCatalog /\ regHrefAuthor(link.href)
isSequenceLink(link) == link.type = linkTypeCatalog /\ regHrefSequence(link.href)
isImage(link) == link.rel = linkRelImage /\ regLinkTypeImage(link.type)
isNext(link) == link.rel = linkRelNext /\ link.type = linkTypeCatalog

\* matcher(link) == "" for the matcher of that name.
Matches(matcher, link) ==
    CASE matcher = "isCatalog" -> isCatalog(link)
      [] matcher = "isAuthorLink" -> isAuthorLink(link)
      [] matcher = "isSequenceLink" -> isSequenceLink(link)
      [] matcher = "isImage" -> isImage(link)
      [] matcher = "isNext" -> isNext(link)

\* A chooseLink in which a later matching link replaces the one found.
chooseLinkLast(links, matcher) ==
    LET hits == {k \in 1..Len(links) : Matches(matcher, TrimLink(links[k]))}
    IN IF hits = {} THEN Nil
       ELSE Ref(TrimLink(links[CHOOSE k \in hits : \A j \in hits : j <= k]))

\* chooseLink: the first link the matcher accepts (rel and type trimmed), or nil;
\* later matching links are skipped.  ret = &link is the address of the range
\* variable of that iteration.
chooseLink(links, matcher) ==
    LET hits == {k \in 1..Len(links) : Matches(matcher, TrimLink(links[k]))}
    IN IF hits = {} THEN Nil ELSE Ref(TrimLink(links[Min(hits)]))

\* chooseLink built with one range variable for the whole loop (the language
\* before go 1.22): ret points at the variable, which holds the last link of
\* the entry when the loop ends.
chooseLinkShared(links, matcher) ==
    LET hits == {k \in 1..Len(links) : Matches(matcher, TrimLink(links[k]))}
    IN IF hits = {} THEN Nil ELSE Ref(TrimLink(links[Len(links)]))

\* getNext: [found, ok, url]: no next link, a next link, or one that does not parse.
getNext(feed) ==
    LET l == chooseLink(feed.links, "isNext")
    IN IF l = Nil THEN [found |-> FALSE, ok |-> TRUE, url |-> NoUrl]
       ELSE IF ~ParseOk(Deref(l).href) THEN [found |-> TRUE, ok |-> FALSE, url |-> NoUrl]
       ELSE [found |-> TRUE, ok |-> TRUE, url |-> Deref(l).href]

(* ----------------------------- entity extractor ------------------------ *)

RECURSIVE DedupAuthors(_, _)
\* parseBook's author loop: "/a/N" becomes "tag:author:N", duplicates and
\* unparseable URIs are dropped, the feed order is kept.
DedupAuthors(uris, seen) ==
    IF uris = <<>> THEN <<>>
    ELSE LET uri == Head(uris)
             id == <<"tag", "author", uri[2]>>
         IN IF ~regHrefAuthorAlt(uri) \/ id \in seen
            THEN DedupAuthors(Tail(uris), seen)
            ELSE <<id>> \o DedupAuthors(Tail(uris), seen \cup {id})

parseBook(entry) == Book(entry.id, TrimSpace(entry.title), DedupAuthors(entry.authors, {}))

RECURSIVE CollectBooksLast(_, _)
\* An entry loop in which a later entry of an id replaces the earlier one.
CollectBooksLast(entries, seen) ==
    IF entries = <<>> THEN <<>>
    ELSE LET e == Head(entries)
             again == \E j \in 2..Len(entries) : entries[j].id = e.id
         IN IF ~regTagBook(e.id) \/ again
            THEN CollectBooksLast(Tail(entries), seen)
            ELSE <<parseBook(e)>> \o CollectBooksLast(Tail(entries), seen)

RECURSIVE CollectBooks(_, _)
\* The entry loop of flibustaBooks.crawl and flibustaSeries.sequence: the book
\* entries of a page, the first of each id, in feed order.
CollectBooks(entries, seen) ==
    IF entries = <<>> THEN <<>>
    ELSE LET e == Head(entries)
         IN IF ~regTagBook(e.id) \/ e.id \in seen
            THEN CollectBooks(Tail(entries), seen)
            ELSE <<parseBook(e)>> \o CollectBooks(Tail(entries), seen \cup {e.id})

RECURSIVE FillEntries(_, _, _)
\* The entry loop of fillInfo; acc is [author, booksLink].
FillEntries(entries, authorUrl, acc) ==
    IF entries = <<>> THEN acc
    ELSE LET e == Head(entries)
             rest == Tail(entries)
         IN IF regTagBio(e.id)
            THEN LET withBio == [acc.author EXCEPT !.bio = e.content]
                     link == chooseLink(e.links, "isImage")
                 IN IF link = Nil
                    THEN FillEntries(rest, authorUrl, [acc EXCEPT !.author = withBio])
                    ELSE IF ~ParseOk(Deref(link).href)
                    THEN FillEntries(rest, authorUrl, [acc EXCEPT !.author = withBio])
                    ELSE FillEntries(rest, authorUrl,
                            [acc EXCEPT !.author =
                                [withBio EXCEPT !.avatar =
                                    UrlString(ResolveReference(authorUrl, Deref(link).href))]])
            ELSE IF regTagAuthorBooks(e.id)
            THEN IF acc.booksLink # Nil
                 THEN FillEntries(rest, authorUrl, acc)
                 ELSE LET link == chooseLink(e.links, "isCatalog")
                      IN IF link = Nil \/ ~ParseOk(Deref(link).href)
                         THEN FillEntries(rest, authorUrl, acc)
                         ELSE FillEntries(rest, authorUrl,
                                 [acc EXCEPT !.booksLink = Ref(Deref(link).href)])
            ELSE FillEntries(rest, authorUrl, acc)

\* fillInfo once the author description has been fetched: the name from the
\* feed title when the author has none, bio, avatar and the books feed link.
fillInfo(feed, authorUrl, author) ==
    LET named == IF author.name = "" /\ regTitleAuthorBooks(feed.title)
                 THEN [author EXCEPT !.name = feed.title[2]]
                 ELSE author
    IN FillEntries(feed.entries, authorUrl, [author |-> named, booksLink |-> Nil])

\* The author ids of a batch of books.
BatchAuthors(bks) == UNION {{b.authors[k] : k \in 1..Len(b.authors)} : b \in {bks[j] : j \in 1..Len(bks)}}
BatchIds(bks) == {bks[j].id : j \in 1..Len(bks)}

(* ------------------------------- errors -------------------------------- *)

\* An error value: its kind and the position in the trace where it arose
\* (which tells two errors of one kind apart).
Err(kind, seq) == [kind |-> kind, seq |-> seq]
NilErr == Err("nil", 0)

\* A classification that lets Consumer errors through to the Handler.
UnresumableHandlerOnly(err) == err.kind = "handler"

\* errors.As(err, new(unresumableError)): consumerError and handlerError.
Unresumable(err) == err.kind \in {"consumer", "handler"}

(* ========================= the relational store ======================== *)

\* Consumer calls in one application of a call sequence.
MaxCalls == 2

\* Store writes that fail in one behaviour.
MaxStoreFaults == 1

Range(s) == {s[j] : j \in 1..Len(s)}

\* strings.ToLower, and lower() of the genre_by_title index.
ToLower(s) ==
    CASE s = "Fantasy" -> "fantasy"
      [] s = "Epic" -> "epic"
      [] OTHER -> s

\* The place of a title in "order by genre.title" (byte order).
TitleRank(s) ==
    CASE s = "Epic" -> 1
      [] s = "Fantasy" -> 2
      [] s = "epic" -> 3
      [] OTHER -> 4

RECURSIVE SortTitles(_)
SortTitles(S) ==
    IF S = {} THEN <<>>
    ELSE LET m == CHOOSE x \in S : \A y \in S : TitleRank(x) <= TitleRank(y)
         IN <<m>> \o SortTitles(S \ {m})

\* types.Book as the Consumer receives it (Series is not filled by the crawler).
FullBook(id, title, authors, genres) ==
    [id |-> id, title |-> title, authors |-> authors, genres |-> genres,
     language |-> "en", year |-> 1984, about |-> "", cover |-> <<>>]

\* The store after the migrations: every table empty, the genre serial unused.
EmptyDb ==
    [book |-> {}, author |-> {}, series |-> {}, genre |-> {}, genre_id_seq |-> 0,
     book_author |-> {}, book_genre |-> {}, book_series |-> {}]

\* The contents of the tables, without the serial.
Tables(d) ==
    [book |-> d.book, author |-> d.author, series |-> d.series, genre |-> d.genre,
     book_author |-> d.book_author, book_genre |-> d.book_genre,
     book_series |-> d.book_series]

Ids(rows) == {r.id : r \in rows}
RowOf(rows, id) == CHOOSE r \in rows : r.id = id

\* The outcome of a statement: the error ("nil" when none) and the store after it.
Done(d) == [err |-> "nil", db |-> d]
Failed(kind, d) == [err |-> kind, db |-> d]

(* ------------------------------- authors ------------------------------- *)

pgxAuthor(a) == [id |-> a.id, name |-> a.name, bio |-> a.bio, avatar_url |-> a.avatar]

\* pgxAuthor.intoCommon: a stored avatar goes through url.Parse and String.
authorIntoCommon(row) ==
    Author(row.id, row.name, row.bio,
           IF row.avatar_url = <<>> THEN <<>> ELSE UrlString(ParseUrl(row.avatar_url)))

\* Authors.GetById: a pointer to the author, nil when there is no row.
AuthorsGetById(d, id) ==
    IF id \in Ids(d.author) THEN Ref(authorIntoCommon(RowOf(d.author, id))) ELSE Nil

\* A lookup that finds every author it is asked for.
AuthorsGetByIdsEvery(d, ids) == ids

\* Authors.GetByIds: the ids, among the asked ones, that have a row.
AuthorsGetByIds(d, ids) == Ids(d.author) \cap ids

\* Authors.Save: insert ... on conflict (id) do update.
AuthorsSave(d, a) ==
    [d EXCEPT !.author = {r \in @ : r.id # a.id} \cup {pgxAuthor(a)}]

(* -------------------------------- series ------------------------------- *)

SeriesGetById(d, id) ==
    IF id \in Ids(d.series) THEN Ref(RowOf(d.series, id)) ELSE Nil

\* Series.Save: insert ... on conflict (id) do update.
SeriesSave(d, s) ==
    [d EXCEPT !.series = {r \in @ : r.id # s.id} \cup {Series(s.id, s.title)}]

(* -------------------------------- genres ------------------------------- *)

\* Genres.GetIdByTitles: the rows whose lower(title) is the lower case of one
\* of the titles, as a map from the STORED title to the id.
GenresGetIdByTitles(d, titles) ==
    {r \in d.genre : ToLower(r.title) \in {ToLower(t) : t \in titles}}

\* The insert of Genres.Insert without the genre_by_title index: every title
\* becomes a row.
RECURSIVE InsertGenreRowsNoIndex(_, _)
InsertGenreRowsNoIndex(d, titles) ==
    IF titles = <<>> THEN [db |-> d, rows |-> {}]
    ELSE LET id == d.genre_id_seq + 1
             row == [id |-> id, title |-> Head(titles)]
             rest == InsertGenreRowsNoIndex(
                         [d EXCEPT !.genre_id_seq = id, !.genre = @ \cup {row}],
                         Tail(titles))
         IN [db |-> rest.db, rows |-> rest.rows \cup {row}]

\* insert into genre (title) values ... on conflict do nothing returning id,
\* title: the values are tried in their order, each draws an id of the serial,
\* and one that meets a row with its lower(title) (genre_by_title) is skipped.
RECURSIVE InsertGenreRows(_, _)
InsertGenreRows(d, titles) ==
    IF titles = <<>> THEN [db |-> d, rows |-> {}]
    ELSE LET id == d.genre_id_seq + 1
             row == [id |-> id, title |-> Head(titles)]
             conflict == \E r \in d.genre : ToLower(r.title) = ToLower(row.title)
             rest == InsertGenreRows(
                         [d EXCEPT !.genre_id_seq = id,
                                   !.genre = IF conflict THEN @ ELSE @ \cup {row}],
                         Tail(titles))
         IN [db |-> rest.db, rows |-> IF conflict THEN rest.rows ELSE rest.rows \cup {row}]

\* The titles of the map a lookup or an insert returned.
Titles(rows) == {r.title : r \in rows}

\* gs[title] of a title the map holds.
IdOfTitle(rows, title) == (CHOOSE r \in rows : r.title = title).id

(* -------------------------------- books -------------------------------- *)

pgxBook(b) ==
    [id |-> b.id, title |-> b.title, language |-> b.language, year |-> b.year,
     about |-> b.about, cover_url |-> b.cover]

\* array_agg(author_id order by author_order) over the rows of one book.
RECURSIVE AggAuthors(_)
AggAuthors(rows) ==
    IF rows = {} THEN <<>>
    ELSE LET r == CHOOSE x \in rows : \A y \in rows : x.author_order <= y.author_order
         IN <<r.author_id>> \o AggAuthors(rows \ {r})

subAuthors(d, id) == AggAuthors({r \in d.book_author : r.book_id = id})

\* array_agg(genre.title order by genre.title) of a book.
subGenres(d, id) ==
    SortTitles({g.title : g \in {g \in d.genre :
                    \E r \in d.book_genre : r.book_id = id /\ r.genre_id = g.id}})

\* pgxBook.intoCommon with the authors and genres of the sub-selects.
bookIntoCommon(d, row) ==
    [id |-> row.id, title |-> row.title, authors |-> subAuthors(d, row.id),
     genres |-> subGenres(d, row.id), language |-> row.language, year |-> row.year,
     about |-> row.about,
     cover |-> IF row.cover_url = <<>> THEN <<>> ELSE UrlString(ParseUrl(row.cover_url))]

\* Books.GetByIds: the stored books, among the asked ones.
BooksGetByIds(d, ids) == {bookIntoCommon(d, r) : r \in {r \in d.book : r.id \in ids}}

\* Books.Save: insert ... on conflict (id) do update, one statement.
BooksSave(d, bks) ==
    [d EXCEPT !.book = {r \in @ : r.id \notin BatchIds(bks)}
                           \cup {pgxBook(bks[j]) : j \in 1..Len(bks)}]

\* The greatest value of the column type smallint of book.year.
smallintMax == 32767

\* Books.Save as the store answers it: the one insert statement is refused as
\* a whole, with no row written, when the year of a row is out of the range
\* of smallint.
BooksSaveExec(d, bks) ==
    IF \E j \in 1..Len(bks) : bks[j].year > smallintMax
    THEN Failed("smallint out of range", d)
    ELSE Done(BooksSave(d, bks))

\* A diff over the columns of the book row alone.
bookNeedsUpdateRowOnly(book, new) ==
    \/ book.title # new.title
    \/ book.language # new.language
    \/ book.year # new.year
    \/ book.about # new.about
    \/ book.cover # new.cover

\* A diff that does not look at the year.
bookNeedsUpdateNoYear(book, new) ==
    \/ book.title # new.title
    \/ book.authors # new.authors
    \/ book.genres # new.genres
    \/ book.language # new.language
    \/ book.about # new.about
    \/ book.cover # new.cover

bookNeedsUpdate(book, new) ==
    \/ book.title # new.title
    \/ book.authors # new.authors
    \/ book.genres # new.genres
    \/ book.language # new.language
    \/ book.year # new.year
    \/ book.about # new.about
    \/ book.cover # new.cover

\* The books of the batch that are new or changed, in the order of the batch.
RECURSIVE SaveBooks(_, _)
SaveBooks(exist, bks) ==
    IF bks = <<>> THEN <<>>
    ELSE LET book == Head(bks)
             skip == /\ book.id \in Ids(exist)
                     /\ ~bookNeedsUpdate(RowOf(exist, book.id), book)
         IN (IF skip THEN <<>> ELSE <<book>>) \o SaveBooks(exist, Tail(bks))

(* ------------------------------ link tables ---------------------------- *)

\* The rows LinkBookAndAuthors writes, numbered from zero.
AuthorRowsFromZero(bookId, authorIds) ==
    {[book_id |-> bookId, author_id |-> authorIds[j], author_order |-> j - 1]
        : j \in 1..Len(authorIds)}

\* The rows LinkBookAndAuthors writes: author_order is the place in the input.
AuthorRows(bookId, authorIds) ==
    {[book_id |-> bookId, author_id |-> authorIds[j], author_order |-> j]
        : j \in 1..Len(authorIds)}

GenreRows(bookId, genreIds) ==
    {[book_id |-> bookId, genre_id |-> genreIds[j]] : j \in 1..Len(genreIds)}

SeriesRows(seriesId, bookIds) ==
    {[book_id |-> bookIds[j], series_id |-> seriesId, book_order |-> j]
        : j \in 1..Len(bookIds)}

\* Whether a sequence holds some value twice.
HasDuplicate(s) == Cardinality(Range(s)) < Len(s)

\* delete from book_author where book_id = ...
DeleteBookAuthor(d, bookId) ==
    [d EXCEPT !.book_author = {r \in @ : r.book_id # bookId}]

\* insert into book_author: primary key (author_id, book_id), references to
\* book and author.
InsertBookAuthor(d, bookId, authorIds) ==
    IF bookId \notin Ids(d.book) \/ ~(Range(authorIds) \subseteq Ids(d.author))
    THEN Failed("foreign key", d)
    ELSE IF HasDuplicate(authorIds)
              \/ \E r \in d.book_author : r.book_id = bookId /\ r.author_id \in Range(authorIds)
    THEN Failed("primary key", d)
    ELSE Done([d EXCEPT !.book_author = @ \cup AuthorRows(bookId, authorIds)])

\* delete from book_genre where book_id = ...
DeleteBookGenre(d, bookId) ==
    [d EXCEPT !.book_genre = {r \in @ : r.book_id # bookId}]

\* insert into book_genre: primary key (book_id, genre_id), references to
\* book and genre.
InsertBookGenre(d, bookId, genreIds) ==
    IF bookId \notin Ids(d.book) \/ ~(Range(genreIds) \subseteq Ids(d.genre))
    THEN Failed("foreign key", d)
    ELSE IF HasDuplicate(genreIds)
              \/ \E r \in d.book_genre : r.book_id = bookId /\ r.genre_id \in Range(genreIds)
    THEN Failed("primary key", d)
    ELSE Done([d EXCEPT !.book_genre = @ \cup GenreRows(bookId, genreIds)])

\* A link step that keeps the rows the series had.
DeleteBookSeriesNothing(d, seriesId) == d

\* delete from book_series where series_id = ...
DeleteBookSeries(d, seriesId) ==
    [d EXCEPT !.book_series = {r \in @ : r.series_id # seriesId}]

\* insert into book_series: primary key (book_id, series_id), references to
\* book and series.
InsertBookSeries(d, seriesId, bookIds) ==
    IF seriesId \notin Ids(d.series) \/ ~(Range(bookIds) \subseteq Ids(d.book))
    THEN Failed("foreign key", d)
    ELSE IF HasDuplicate(bookIds)
              \/ \E r \in d.book_series : r.series_id = seriesId /\ r.book_id \in Range(bookIds)
    THEN Failed("primary key", d)
    ELSE Done([d EXCEPT !.book_series = @ \cup SeriesRows(seriesId, bookIds)])

(* --------------------------- consumer calls ---------------------------- *)

\* What the upstream holds: two authors, two books in several shapes, two
\* series.  The genres of a book are as parseBook leaves them: no two the
\* same up to case, in the order of sort.Strings.  "Fantasy" and "fantasy"
\* differ by case only.
Ann == Author("a1", "Ann", "", <<>>)
AnnWithBio == Author("a1", "Ann", "bio", <<>>)
Bob == Author("a2", "Bob", "", UrlString(U(<<"i", "2.jpg">>, "")))

K1 == FullBook("b1", "T", <<"a1">>, <<"Fantasy">>)
K2 == FullBook("b1", "T", <<"a2", "a1">>, <<"fantasy">>)
K3 == FullBook("b2", "U", <<"a2">>, <<"Epic">>)
K4 == FullBook("b2", "U", <<"a1", "a2">>, <<"Epic", "Fantasy">>)
K5 == FullBook("b2", "U", <<"a2">>, <<"Fantasy">>)

Saga == Series("s1", "Saga")
SagaII == Series("s1", "Saga II")
Cycle == Series("s2", "Cycle")

\* fetchAuthor as the crawler passes it: the author page of the id.
fetchAuthor(id) == IF id = "a1" THEN Ann ELSE Bob

Call(fn, author, series, bks) ==
    [fn |-> fn, author |-> author, series |-> series, books |-> bks]

StoreCalls ==
    {Call("ConsumeAuthor", Ref(a), Nil, <<>>) : a \in {Ann, AnnWithBio, Bob}}
    \cup {Call("ConsumeBooks", Nil, Nil, b)
            : b \in {<<K1>>, <<K2>>, <<K3>>, <<K4>>, <<K1, K4>>, <<K2, K3>>}}
    \cup {Call("ConsumeSeries", Nil, Ref(Saga), <<K1, K4>>),
          Call("ConsumeSeries", Nil, Ref(Saga), <<K4>>),
          Call("ConsumeSeries", Nil, Ref(SagaII), <<K1>>),
          Call("ConsumeSeries", Nil, Ref(Cycle), <<K1>>),
          Call("ConsumeSeries", Nil, Ref(Cycle), <<K3>>)}

\* The genre titles of a batch (uniqGenreTitles).
BatchGenres(bks) == UNION {Range(bks[j].genres) : j \in 1..Len(bks)}

\* A consumer in a call: the call, the place in its code and its locals.
\* pre holds the tables as they were when the call began, asked the ids
\* fetchAuthor has been called with, in the order of the calls.
Enter(call, d) ==
    [fn |-> call.fn, author |-> call.author, series |-> call.series, books |-> call.books,
     pc |-> CASE call.fn = "ConsumeAuthor" -> "Authors.GetById"
              [] call.fn = "ConsumeBooks" -> "Authors.GetByIds"
              [] call.fn = "ConsumeSeries" -> "Series.GetById",
     todo |-> {}, gs |-> {}, new |-> {}, got |-> {}, save |-> <<>>, i |-> 0,
     err |-> "nil", pre |-> Tables(d), asked |-> <<>>]

IdleConsumer ==
    [fn |-> "idle", author |-> Nil, series |-> Nil, books |-> <<>>, pc |-> "idle",
     todo |-> {}, gs |-> {}, new |-> {}, got |-> {}, save |-> <<>>, i |-> 0,
     err |-> "nil", pre |-> Tables(EmptyDb), asked |-> <<>>]

\* The consumer calls of a behaviour: off for the crawler alone, "calls" for
\* a sequence of calls and its second application, "race" for two consumers
\* at once.  from is the first call of the part of the sequence that is
\* applied twice, dirty the last call in which a store write failed, errs
\* the number of calls that returned an error, snap the tables after the
\* first application, writes the tables written in the second.
History(m) ==
    [mode |-> m, pass |-> 1, calls |-> <<>>, from |-> 0, k |-> 0,
     snap |-> Tables(EmptyDb), writes |-> {}, faults |-> 0, dirty |-> 0, errs |-> 0]

(* -------------------------------- state -------------------------------- *)

VARIABLES
    stack,      \* the call stack of the running process, innermost call last
    ret,        \* the value the call that just returned hands to its caller
    trace,      \* every fetch, Consumer call and Handler call so far, all runs
    authorTable,\* ids of the author table
    bookTable,  \* ids of the book table
    seriesTable,\* ids of the series table
    fails,      \* the fail table
    failSeq,    \* the serial of the fail table
    run,        \* the running process: its number, kind, start time, threshold
    status,     \* "running" or "done"
    exitCode,   \* the exit code of the last finished run
    faults,     \* failures injected so far
    mode,       \* "free", or "replay": a scripted crawl, resume, crawl
    ref,        \* replay: <<descriptor, work>> of the subtree calls of the last crawl
    res,        \* replay: <<descriptor, work>> of the Resume calls
    db,         \* the relational store: the rows of its tables
    cons,       \* the storing consumers: the call each is in and its locals
    hist,       \* the consumer calls made so far, and their replay
    unit        \* a function called on its own: its name, arguments and result

vars == <<stack, ret, trace, authorTable, bookTable, seriesTable, fails, failSeq, run, status,
          exitCode, faults, mode, ref, res, db, cons, hist, unit>>

\* No function is called on its own.
NoUnit == [fn |-> "none"]

NoFeed == ResumableFeed(NoUrl, 0, Nil, Nil)

Event(ev) ==
    [ev |-> ev, url |-> NoUrl, feed |-> NoFeed, author |-> Nil, series |-> Nil,
     books |-> <<>>, ok |-> TRUE, by |-> "", err |-> NilErr, n |-> 0]

Frame(fn, pc, feed, url, author, series) ==
    [fn |-> fn, pc |-> pc, feed |-> feed, url |-> url, author |-> author,
     series |-> series, i |-> 1, bks |-> <<>>, todo |-> {}, link |-> NoUrl,
     arg |-> Nil, t0 |-> 0, desc |-> NoFeed, batch |-> <<>>]

NoRet == [set |-> FALSE, err |-> NilErr, author |-> Nil]

Top == stack[Len(stack)]
Pop == SubSeq(stack, 1, Len(stack) - 1)

\* The three ways a step ends: go on in the same call, call, return.
Continuing(f) == [stack |-> [stack EXCEPT ![Len(stack)] = f], ret |-> NoRet]
\* t0 is the length of the trace when the callee starts.
CallingAt(f, g, t0) ==
    [stack |-> Append([stack EXCEPT ![Len(stack)] = [f EXCEPT !.t0 = t0]], g),
     ret |-> NoRet]
Calling(f, g) == CallingAt(f, g, Len(trace))
Returning(err, author) ==
    [stack |-> Pop, ret |-> [set |-> TRUE, err |-> err, author |-> author]]

Running == status = "running" /\ stack # <<>> /\ ~ret.set

\* Whether one more failure may be injected: within the budget and, in a
\* replay, only during the first crawl.
CanFault == faults < MaxFaults /\ (mode = "replay" => run.no = 1)
Outcomes == IF CanFault THEN {TRUE, FALSE} ELSE {TRUE}
Spend(ok) == IF ok THEN faults ELSE faults + 1

\* The subtree a call is working on, as the call itself knows it.
SubtreeOf(f) ==
    CASE f.fn = "authors.crawl" -> ResumableFeed(f.feed, FeedTypeAuthors, Nil, Nil)
      [] f.fn = "author" -> ResumableFeed(f.url, FeedTypeAuthor, f.author, Nil)
      [] f.fn = "books.crawl" -> ResumableFeed(f.feed, FeedTypeBooks, f.author, Nil)
      [] f.fn = "series.crawl" -> ResumableFeed(f.feed, FeedTypeSequences, Nil, Nil)
      [] f.fn = "sequence" -> ResumableFeed(f.url, FeedTypeSeries, Nil, f.series)
      [] OTHER -> NoFeed

(* ------------------------------ fail store ----------------------------- *)

\* json.Marshal of *types.Author: bio and avatar_url are omitted when empty.
JsonAuthor(p) ==
    IF p = Nil THEN Nil
    ELSE LET a == Deref(p)
             keys == {"id", "name"} \cup (IF a.bio = "" THEN {} ELSE {"bio"})
                        \cup (IF a.avatar = <<>> THEN {} ELSE {"avatar_url"})
         IN Ref([k \in keys |-> CASE k = "id" -> a.id
                                  [] k = "name" -> a.name
                                  [] k = "bio" -> a.bio
                                  [] k = "avatar_url" -> a.avatar])
\* A decoder that does not know the avatar_url key.
UnJsonAuthorNoAvatar(p) ==
    IF p = <<>> THEN <<>>
    ELSE <<[id |-> p[1].id, name |-> p[1].name,
            bio |-> IF "bio" \in DOMAIN p[1] THEN p[1].bio ELSE "", avatar |-> <<>>]>>

UnJsonAuthor(p) ==
    IF p = Nil THEN Nil
    ELSE LET j == Deref(p)
         IN Ref(Author(j.id, j.name,
                       IF "bio" \in DOMAIN j THEN j.bio ELSE "",
                       IF "avatar_url" \in DOMAIN j THEN j.avatar_url ELSE <<>>))

\* The feed column of a fail row, written by Save and read back by GetFails.
pgxFeed(feed) ==
    [url |-> UrlString(feed.url), type |-> feed.type,
     author |-> JsonAuthor(feed.author), series |-> feed.series]
FeedOfRow(row) ==
    ResumableFeed(ParseUrl(row.feed.url), row.feed.type,
                  UnJsonAuthor(row.feed.author), row.feed.series)

\* A Save that leaves its row alone in the table.
SaveReplacing(startTime, feed, err) ==
    {[id |-> failSeq + 1, start_time |-> startTime,
      feed |-> pgxFeed(feed), error |-> err.kind]}

\* pgxRepo.Save: one more row, its id from the serial.
Save(startTime, feed, err) ==
    fails \cup {[id |-> failSeq + 1, start_time |-> startTime,
                 feed |-> pgxFeed(feed), error |-> err.kind]}

\* A GetFails that leaves out the rows of the threshold instant itself.
GetFailsBefore(notAfter) == {r \in fails : r.start_time < notAfter}

\* pgxRepo.GetFails: the rows that started no later than notAfter.
GetFails(notAfter) == {r \in fails : r.start_time <= notAfter}

\* A delete that empties the fail table.
DeleteEveryRow(id) == {r \in fails : FALSE}

\* pgxRepo.DeleteById.
DeleteById(id) == {r \in fails : r.id # id}

(* ------------------------------ consumeError --------------------------- *)

\* A consumeError that absorbs every error it does not hand to the Handler.
consumeErrorAbsorbing(err, hOk, seq) ==
    IF err = NilErr \/ Unresumable(err) THEN [err |-> NilErr, handled |-> FALSE]
    ELSE IF hOk THEN [err |-> NilErr, handled |-> TRUE]
    ELSE [err |-> Err("handler", seq), handled |-> TRUE]

\* consumeError(err, feed, handler, l): what it returns; handled says whether
\* Handler.Handle was called, hOk whether Handle returned nil.
consumeError(err, hOk, seq) ==
    IF Unresumable(err) THEN [err |-> err, handled |-> FALSE]
    ELSE IF err # NilErr
    THEN IF hOk THEN [err |-> NilErr, handled |-> TRUE]
         ELSE [err |-> Err("handler", seq), handled |-> TRUE]
    ELSE [err |-> NilErr, handled |-> FALSE]

(* ------------------------- the traversal engine ------------------------ *)

store == <<authorTable, bookTable, seriesTable>>
failTable == <<fails, failSeq>>
process == <<run, status, exitCode, mode>>
ghost == <<ref, res>>
relational == <<db, cons, hist, unit>>

\* The author a returning call leaves behind the pointer it was given.
RetAuthor(f) == IF f.fn = "author" THEN f.author ELSE Nil

ConsumerFailed(tr) ==
    Append(tr, [Event("consumerError") EXCEPT !.err = Err("consumer", Len(tr) + 1)])

\* Flibusta.Crawl, first half: start the authors crawl.
CrawlStart ==
    /\ Running /\ Top.fn = "Crawl" /\ Top.pc = "start"
    /\ LET f == Top
           r == Calling([f EXCEPT !.pc = "afterAuthors", !.link = f.feed],
                        Frame("authors.crawl", "fetch", f.feed, NoUrl, Nil, Nil))
       IN stack' = r.stack /\ ret' = r.ret
    /\ UNCHANGED <<trace, store, failTable, process, faults, ghost, relational>>

\* A crawl that hands the Consumer the books of a feed even when there are
\* none.
FetchedConsumingNone(f, feed) ==
    CASE f.fn \in {"authors.crawl", "series.crawl"} ->
           Continuing([f EXCEPT !.pc = "entries", !.i = 1])
      [] f.fn = "books.crawl" ->
           Continuing([f EXCEPT !.bks = CollectBooks(feed.entries, {}), !.pc = "consume"])
      [] f.fn = "author" ->
           LET info == fillInfo(feed, f.url, Deref(f.author))
           IN IF info.booksLink = Nil
              THEN Returning(NilErr, Ref(info.author))
              ELSE Continuing([f EXCEPT !.author = Ref(info.author),
                                        !.link = Deref(info.booksLink),
                                        !.pc = "consume"])
      [] f.fn = "sequence" ->
           Continuing([f EXCEPT !.bks = CollectBooks(feed.entries, {}), !.pc = "consume"])

\* What a call does with the feed it fetched, up to its first Consumer call,
\* subtree call or return.
Fetched(f, feed) ==
    CASE f.fn \in {"authors.crawl", "series.crawl"} ->
           Continuing([f EXCEPT !.pc = "entries", !.i = 1])
      [] f.fn = "books.crawl" ->
           LET bks == CollectBooks(feed.entries, {})
           IN Continuing([f EXCEPT !.bks = bks,
                                   !.pc = IF bks = <<>> THEN "next" ELSE "consume"])
      [] f.fn = "author" ->
           LET info == fillInfo(feed, f.url, Deref(f.author))
           IN IF info.booksLink = Nil
              THEN Returning(NilErr, Ref(info.author))
              ELSE Continuing([f EXCEPT !.author = Ref(info.author),
                                        !.link = Deref(info.booksLink),
                                        !.pc = "consume"])
      [] f.fn = "sequence" ->
           LET bks == CollectBooks(feed.entries, {})
           IN IF bks = <<>> THEN Returning(NilErr, Nil)
              ELSE Continuing([f EXCEPT !.bks = bks, !.pc = "consume"])

\* fetchAndUnmarshal at the head of crawl, fillInfo and sequence: the fetch
\* fails (the call returns the error) or gives the feed.
FetchFeed ==
    /\ Running /\ Top.pc = "fetch"
    /\ \E ok \in Outcomes :
         LET f == Top
             u == IF f.fn \in {"author", "sequence"} THEN f.url ELSE f.feed
             r == IF ok THEN Fetched(f, Upstream(u))
                  ELSE Returning(Err("fetch", Len(trace) + 1), RetAuthor(f))
         IN /\ stack' = r.stack /\ ret' = r.ret
            /\ trace' = Append(trace, [Event("fetch") EXCEPT !.url = u, !.ok = ok,
                                           !.by = f.fn, !.feed = SubtreeOf(f),
                                           !.err = IF ok THEN NilErr
                                                   ELSE Err("fetch", Len(trace) + 1)])
            /\ faults' = Spend(ok)
    /\ UNCHANGED <<store, failTable, process, ghost, relational>>

\* One turn of the entry loop of flibustaAuthors.crawl.
AuthorsEntry ==
    /\ Running /\ Top.fn = "authors.crawl" /\ Top.pc = "entries"
    /\ Top.i <= Len(Upstream(Top.feed).entries)
    /\ LET f == Top
           entry == Upstream(f.feed).entries[f.i]
           skip == Continuing([f EXCEPT !.i = f.i + 1])
           r == IF regTagAuthors(entry.id)
                THEN LET link == chooseLink(entry.links, "isCatalog")
                     IN IF link = Nil THEN skip
                        ELSE IF ~ParseOk(Deref(link).href) THEN skip
                        ELSE LET linkUrl == ResolveReference(f.feed, Deref(link).href)
                             IN Calling([f EXCEPT !.pc = "afterNested", !.link = linkUrl],
                                        Frame("authors.crawl", "fetch", linkUrl, NoUrl, Nil, Nil))
                ELSE IF regTagAuthor(entry.id)
                THEN LET author == Author(entry.id, TrimSpace(entry.title), "", <<>>)
                         link == chooseLink(entry.links, "isAuthorLink")
                     IN IF link = Nil THEN skip
                        ELSE IF ~ParseOk(Deref(link).href) THEN skip
                        ELSE LET linkUrl == ResolveReference(f.feed, Deref(link).href)
                             IN Calling([f EXCEPT !.pc = "afterAuthor", !.link = linkUrl,
                                                  !.arg = Ref(author)],
                                        Frame("author", "fetch", f.feed, linkUrl, Ref(author), Nil))
                ELSE skip
       IN stack' = r.stack /\ ret' = r.ret
    /\ UNCHANGED <<trace, store, failTable, process, faults, ghost, relational>>

\* One turn of the entry loop of flibustaSeries.crawl.
SeriesEntry ==
    /\ Running /\ Top.fn = "series.crawl" /\ Top.pc = "entries"
    /\ Top.i <= Len(Upstream(Top.feed).entries)
    /\ LET f == Top
           entry == Upstream(f.feed).entries[f.i]
           skip == Continuing([f EXCEPT !.i = f.i + 1])
           r == IF regTagSeries(entry.id)
                THEN LET link == chooseLink(entry.links, "isCatalog")
                     IN IF link = Nil THEN skip
                        ELSE IF ~ParseOk(Deref(link).href) THEN skip
                        ELSE LET linkUrl == ResolveReference(f.feed, Deref(link).href)
                             IN Calling([f EXCEPT !.pc = "afterNested", !.link = linkUrl],
                                        Frame("series.crawl", "fetch", linkUrl, NoUrl, Nil, Nil))
                ELSE IF regTagSequence(entry.id)
                THEN LET ser == Series(entry.id, TrimSpace(entry.title))
                         link == chooseLink(entry.links, "isSequenceLink")
                     IN IF link = Nil THEN skip
                        ELSE IF ~ParseOk(Deref(link).href) THEN skip
                        ELSE LET linkUrl == ResolveReference(f.feed, Deref(link).href)
                             IN Calling([f EXCEPT !.pc = "afterSequence", !.link = linkUrl,
                                                  !.arg = Ref(ser)],
                                        Frame("sequence", "fetch", f.feed, linkUrl, Nil, Ref(ser)))
                ELSE skip
       IN stack' = r.stack /\ ret' = r.ret
    /\ UNCHANGED <<trace, store, failTable, process, faults, ghost, relational>>

\* Whether a crawl is past its entries (and, for books, its ConsumeBooks).
AtNext(f) ==
    IF f.fn = "books.crawl" THEN f.pc = "next"
    ELSE f.fn \in {"authors.crawl", "series.crawl"} /\ f.pc = "entries"
            /\ f.i > Len(Upstream(f.feed).entries)

\* The end of the three crawl functions: getNext, then the next page under
\* the same state, or return.
NextPage ==
    /\ Running /\ AtNext(Top)
    /\ LET f == Top
           nx == getNext(Upstream(f.feed))
           bad == nx.found /\ ~nx.ok
           r == IF ~nx.found THEN Returning(NilErr, Nil)
                ELSE IF ~nx.ok THEN Returning(Err("parse", Len(trace) + 1), Nil)
                ELSE LET u == ResolveReference(f.feed, nx.url)
                     IN Calling([f EXCEPT !.pc = "afterNext", !.link = u],
                                Frame(f.fn, "fetch", u, NoUrl, f.author, Nil))
       IN /\ stack' = r.stack /\ ret' = r.ret
          /\ trace' = IF bad
                      THEN Append(trace, [Event("badNext") EXCEPT !.url = f.feed, !.ok = FALSE,
                                              !.by = f.fn, !.feed = SubtreeOf(f),
                                              !.err = Err("parse", Len(trace) + 1)])
                      ELSE trace
    /\ UNCHANGED <<store, failTable, process, faults, ghost, relational>>

(* ------------------- the storing consumer, engine side ----------------- *)

\* An author call that goes on to the books although ConsumeAuthor failed.
AfterConsumeAuthorIgnoringError(f, ok, booksLink, t) ==
    CallingAt([f EXCEPT !.pc = "afterBooks", !.link = booksLink],
              Frame("books.crawl", "fetch", booksLink, NoUrl, f.author, Nil), t)

\* flibustaAuthors.author once ConsumeAuthor has returned: the error, wrapped
\* as a consumerError, or the crawl of the author's books feed.
AfterConsumeAuthor(f, ok, booksLink, t) ==
    IF ok
    THEN CallingAt([f EXCEPT !.pc = "afterBooks", !.link = booksLink],
                   Frame("books.crawl", "fetch", booksLink, NoUrl, f.author, Nil), t)
    ELSE Returning(Err("consumer", t + 1), f.author)

\* flibustaAuthors.author after fillInfo: ConsumeAuthor, then the books crawl.
\* StoringConsumer.ConsumeAuthor stores the author or fails on the store.
ConsumeAuthor ==
    /\ Running /\ Top.fn = "author" /\ Top.pc = "consume"
    /\ \E ok \in Outcomes :
         LET f == Top
             booksLink == ResolveReference(f.url, f.link)
             called == Append(trace, [Event("ConsumeAuthor") EXCEPT !.author = f.author,
                                          !.ok = ok])
             r == AfterConsumeAuthor(f, ok, booksLink, Len(called))
         IN /\ stack' = r.stack /\ ret' = r.ret
            /\ trace' = IF ok THEN called ELSE ConsumerFailed(called)
            /\ authorTable' = IF ok THEN authorTable \cup {Deref(f.author).id}
                              ELSE authorTable
            /\ faults' = Spend(ok)
    /\ UNCHANGED <<bookTable, seriesTable, failTable, process, ghost, relational>>

\* The call of ConsumeBooks (flibustaBooks.crawl) or ConsumeSeries
\* (flibustaSeries.sequence) up to the lookup of the batch's authors:
\* ConsumeSeries has stored the series by then.
ConsumeBegin ==
    /\ Running /\ Top.fn \in {"books.crawl", "sequence"} /\ Top.pc = "consume"
    /\ \E ok \in Outcomes :
         LET f == Top
             called == Append(trace,
                 IF f.fn = "books.crawl"
                 THEN [Event("ConsumeBooks") EXCEPT !.books = f.bks, !.author = f.author,
                           !.url = f.feed, !.ok = ok]
                 ELSE [Event("ConsumeSeries") EXCEPT !.books = f.bks, !.series = f.series,
                           !.url = f.url, !.ok = ok])
             r == IF ok
                  THEN Continuing([f EXCEPT !.pc = "hydrate",
                                            !.todo = BatchAuthors(f.bks) \ authorTable])
                  ELSE Returning(Err("consumer", Len(called) + 1), Nil)
         IN /\ stack' = r.stack /\ ret' = r.ret
            /\ trace' = IF ok THEN called ELSE ConsumerFailed(called)
            /\ seriesTable' = IF ok /\ f.fn = "sequence"
                              THEN seriesTable \cup {Deref(f.series).id}
                              ELSE seriesTable
            /\ faults' = Spend(ok)
    /\ UNCHANGED <<authorTable, bookTable, failTable, process, ghost, relational>>

HydrateOutcomes == IF CanFault THEN {"ok", "fetch", "save"} ELSE {"ok"}

\* The request of the author description that resolve makes through fillInfo.
ResolverFetch(authorUrl, id, ok) ==
    [Event("fetch") EXCEPT !.url = authorUrl, !.ok = ok, !.by = "fetchAuthor",
                           !.author = Ref(Author(id, "", "", <<>>))]

\* A resolver that runs the whole author path: it hands the author it fetched
\* to the Consumer.
resolveEmitting(ar, id, ok) ==
    IF ar.author # Nil /\ id = Deref(ar.author).id
    THEN [author |-> ar.author, err |-> "nil", events |-> <<>>]
    ELSE IF ~regTagAuthor(id)
    THEN [author |-> Nil, err |-> "could not parse author id", events |-> <<>>]
    ELSE LET authorUrl == ResolveReference(ar.feed, U(<<"opds", "author", id[3]>>, ""))
             got == fillInfo(Upstream(authorUrl), authorUrl, Author(id, "", "", <<>>))
         IN IF ok
            THEN [author |-> Ref(got.author), err |-> "nil",
                  events |-> <<ResolverFetch(authorUrl, id, ok),
                               [Event("ConsumeAuthor") EXCEPT !.author = Ref(got.author)]>>]
            ELSE [author |-> Nil, err |-> "fetching author",
                  events |-> <<ResolverFetch(authorUrl, id, ok)>>]

\* authorResolver.resolve(id), ar the resolver (the author whose books feed is
\* crawled, or nil, and the current feed), ok whether the request succeeds:
\* the author and error it returns, and the events it adds to the trace.
resolve(ar, id, ok) ==
    IF ar.author # Nil /\ id = Deref(ar.author).id
    THEN [author |-> ar.author, err |-> "nil", events |-> <<>>]
    ELSE IF ~regTagAuthor(id)
    THEN [author |-> Nil, err |-> "could not parse author id", events |-> <<>>]
    ELSE LET authorUrl == ResolveReference(ar.feed, U(<<"opds", "author", id[3]>>, ""))
             got == fillInfo(Upstream(authorUrl), authorUrl, Author(id, "", "", <<>>))
         IN IF ok
            THEN [author |-> Ref(got.author), err |-> "nil",
                  events |-> <<ResolverFetch(authorUrl, id, ok)>>]
            ELSE [author |-> Nil, err |-> "fetching author",
                  events |-> <<ResolverFetch(authorUrl, id, ok)>>]

\* authorResolver.resolve(id) as StoringConsumer.ConsumeBooks calls it for an
\* author missing from the store, and the Save of what it returns.  The
\* missing authors are taken in the order of a Go map: any order.
FetchAuthor ==
    /\ Running /\ Top.pc = "hydrate" /\ Top.todo # {}
    /\ \E id \in Top.todo, out \in HydrateOutcomes :
         LET f == Top
             base == IF f.fn = "sequence" THEN f.url ELSE f.feed
             got == resolve([author |-> f.author, feed |-> base], id, out # "fetch")
             fetches == got.events # <<>>
             ok == got.err = "nil" /\ out = "ok"
             fetched == trace \o got.events
             r == IF ok THEN Continuing([f EXCEPT !.todo = f.todo \ {id}])
                  ELSE Returning(Err("consumer", Len(fetched) + 1), Nil)
         IN /\ (out = "fetch") => fetches
            /\ stack' = r.stack /\ ret' = r.ret
            /\ trace' = IF ok THEN fetched ELSE ConsumerFailed(fetched)
            /\ authorTable' = IF ok THEN authorTable \cup {id} ELSE authorTable
            /\ faults' = Spend(out = "ok")
    /\ UNCHANGED <<bookTable, seriesTable, failTable, process, ghost, relational>>

\* The rest of ConsumeBooks / ConsumeSeries: the books are saved and linked,
\* or a store write fails.
ConsumeEnd ==
    /\ Running /\ Top.pc = "hydrate" /\ Top.todo = {}
    /\ \E ok \in Outcomes :
         LET f == Top
             r == IF ~ok THEN Returning(Err("consumer", Len(trace) + 1), Nil)
                  ELSE IF f.fn = "books.crawl" THEN Continuing([f EXCEPT !.pc = "next"])
                  ELSE Returning(NilErr, Nil)
         IN /\ stack' = r.stack /\ ret' = r.ret
            /\ trace' = IF ok THEN trace ELSE ConsumerFailed(trace)
            /\ bookTable' = IF ok THEN bookTable \cup BatchIds(f.bks) ELSE bookTable
            /\ faults' = Spend(ok)
    /\ UNCHANGED <<authorTable, seriesTable, failTable, process, ghost, relational>>

(* --------------------- subtree calls and their errors ------------------ *)

\* The descriptor each call site hands to consumeError.  An author is held by
\* pointer, so the descriptor of an author call shows what the call left in it.
CallFeed(f, r) ==
    CASE f.fn = "Crawl" /\ f.pc = "afterAuthors" -> MakeResumableAuthors(f.link)
      [] f.fn = "Crawl" /\ f.pc = "afterSeries" -> MakeResumableSequences(f.link)
      [] f.fn = "authors.crawl" /\ f.pc = "afterAuthor" -> MakeResumableAuthor(f.link, r.author)
      [] f.fn = "authors.crawl" -> MakeResumableAuthors(f.link)
      [] f.fn = "author" -> MakeResumableBooks(f.link, f.author)
      [] f.fn = "books.crawl" -> MakeResumableBooks(f.link, f.author)
      [] f.fn = "series.crawl" /\ f.pc = "afterSequence" -> MakeResumableSeries(f.link, f.arg)
      [] f.fn = "series.crawl" -> MakeResumableSequences(f.link)
      [] f.fn = "Resume" ->
           IF f.desc.type = FeedTypeAuthor THEN [f.desc EXCEPT !.author = r.author]
           ELSE f.desc

\* What the caller does with the result of consumeError at each call site.
AfterCall(f, err) ==
    CASE f.pc \in {"afterNested", "afterAuthor", "afterSequence"} ->
           IF err # NilErr THEN Returning(err, Nil)
           ELSE Continuing([f EXCEPT !.pc = "entries", !.i = f.i + 1])
      [] f.pc = "afterAuthors" ->
           IF err # NilErr THEN Returning(err, Nil)
           ELSE Calling([f EXCEPT !.pc = "afterSeries", !.link = f.url],
                        Frame("series.crawl", "fetch", f.url, NoUrl, Nil, Nil))
      [] OTHER -> Returning(err, RetAuthor(f))

\* A Handler that stamps the row with the instant of the failure.
HandleAtFailureTime(feed, err) == Save(Len(trace), feed, err)

\* A Handler that records nothing in a resume run.
HandleInCrawlOnly(feed, err) ==
    IF run.kind = "resume" THEN fails ELSE Save(run.startTime, feed, err)

\* StoringHandler.Handle(feed, err) when the Save succeeds.
Handle(feed, err) == Save(run.startTime, feed, err)

\* The work of the call that just returned: what the trace gained since it began.
Work(f) == SubSeq(trace, f.t0 + 1, Len(trace))

\* A subtree call has returned to its call site: consumeError, with the
\* Handler's Handle when the error is a recoverable one, then the caller's
\* next step.
ConsumeError ==
    /\ status = "running" /\ stack # <<>> /\ ret.set /\ Top.fn # "resume"
    /\ LET f == Top
           feed == CallFeed(f, ret)
           offered == ~Unresumable(ret.err) /\ ret.err # NilErr
       IN \E hOk \in (IF offered THEN Outcomes ELSE {TRUE}) :
            LET c == consumeError(ret.err, hOk, Len(trace) + 1)
                r == AfterCall(f, c.err)
                handled == IF c.handled
                           THEN Append(trace, [Event("Handle") EXCEPT !.feed = feed,
                                                   !.ok = hOk, !.err = ret.err])
                           ELSE trace
                outer == f.fn \in {"Crawl", "Resume"} /\ Len(r.stack) < Len(stack)
            IN /\ stack' = r.stack /\ ret' = r.ret
               /\ trace' = IF outer
                           THEN Append(handled, [Event("returned") EXCEPT !.by = f.fn,
                                                     !.err = c.err, !.feed = f.desc])
                           ELSE handled
               /\ fails' = IF c.handled /\ hOk THEN Handle(feed, ret.err) ELSE fails
               /\ failSeq' = IF c.handled /\ hOk THEN failSeq + 1 ELSE failSeq
               /\ faults' = Spend(hOk)
               /\ res' = IF mode = "replay" /\ f.fn = "Resume"
                         THEN res \cup {<<f.desc, Work(f)>>} ELSE res
               /\ ref' = IF mode = "replay" /\ f.fn # "Resume" /\ run.no = 3
                         THEN ref \cup {<<feed, Work(f)>>} ELSE ref
    /\ UNCHANGED <<store, process, relational>>

(* ------------------------------- Resume -------------------------------- *)

\* Flibusta.Resume: the call the feed type selects.
ResumeCall(feed) ==
    CASE feed.type = FeedTypeAuthors ->
           Frame("authors.crawl", "fetch", feed.url, NoUrl, Nil, Nil)
      [] feed.type = FeedTypeAuthor ->
           Frame("author", "fetch", feed.url, feed.url, feed.author, Nil)
      [] feed.type = FeedTypeBooks ->
           Frame("books.crawl", "fetch", feed.url, NoUrl, feed.author, Nil)
      [] feed.type = FeedTypeSequences ->
           Frame("series.crawl", "fetch", feed.url, NoUrl, Nil, Nil)
      [] feed.type = FeedTypeSeries ->
           Frame("sequence", "fetch", feed.url, feed.url, Nil, feed.series)

KnownType(t) ==
    t \in {FeedTypeAuthors, FeedTypeAuthor, FeedTypeBooks, FeedTypeSequences, FeedTypeSeries}

ResumeDispatch ==
    /\ Running /\ Top.fn = "Resume" /\ Top.pc = "start"
    /\ LET f == Top
           known == KnownType(f.desc.type)
           r == IF known
                THEN Calling([f EXCEPT !.pc = "afterCall", !.link = f.desc.url],
                             ResumeCall(f.desc))
                ELSE Returning(Err("unknown feed type", Len(trace) + 1), Nil)
       IN /\ stack' = r.stack /\ ret' = r.ret
          /\ trace' = IF known THEN trace
                      ELSE Append(trace, [Event("returned") EXCEPT !.by = "Resume",
                                              !.err = Err("unknown feed type", Len(trace) + 1),
                                              !.feed = f.desc])
    /\ UNCHANGED <<store, failTable, process, faults, ghost, relational>>

(* --------------------------- the resume driver ------------------------- *)

Perms(S) ==
    {s \in [1..Cardinality(S) -> S] : \A i, j \in 1..Cardinality(S) : i # j => s[i] # s[j]}

\* What one GetFails(notAfter, limit) call of the driver can return: at most
\* limit of the matching rows, in the order the store gives them (any).
Batches(notAfter, limit) ==
    LET rows == GetFails(notAfter)
        size == IF Cardinality(rows) < limit THEN Cardinality(rows) ELSE limit
    IN UNION {Perms(sub) : sub \in {x \in SUBSET rows : Cardinality(x) = size}}

\* resume(), the head of the outer loop: fetch the next batch of fail rows.
DriverGetFails ==
    /\ Running /\ Top.fn = "resume" /\ Top.pc = "getFails"
    /\ \E ok \in Outcomes, b \in Batches(run.T, FailsLimit) :
         LET f == Top
             r == IF ~ok THEN Returning(Err("store", Len(trace) + 1), Nil)
                  ELSE IF Len(b) = 0 THEN Returning(NilErr, Nil)
                  ELSE Continuing([f EXCEPT !.batch = b, !.i = 1, !.pc = "loop"])
         IN /\ stack' = r.stack /\ ret' = r.ret
            /\ trace' = Append(trace, [Event("GetFails") EXCEPT !.ok = ok,
                                           !.n = IF ok THEN Len(b) ELSE 0])
            /\ faults' = Spend(ok)
    /\ UNCHANGED <<store, failTable, process, ghost, relational>>

\* resume(), the inner loop: Resume the next row of the batch.
DriverResume ==
    /\ Running /\ Top.fn = "resume" /\ Top.pc = "loop"
    /\ LET f == Top
           more == f.i <= Len(f.batch)
           feed == FeedOfRow(f.batch[f.i])
           r == IF more
                THEN Calling([f EXCEPT !.pc = "afterResume"],
                             [Frame("Resume", "start", feed.url, NoUrl, Nil, Nil)
                                 EXCEPT !.desc = feed])
                ELSE Continuing([f EXCEPT !.pc = "getFails"])
       IN /\ stack' = r.stack /\ ret' = r.ret
          /\ trace' = IF more
                      THEN Append(trace, [Event("Resume") EXCEPT !.feed = feed,
                                              !.n = f.batch[f.i].id])
                      ELSE trace
    /\ UNCHANGED <<store, failTable, process, faults, ghost, relational>>

\* resume() after Resume returned: give up on an error, else delete the row.
DriverAfterResume ==
    /\ status = "running" /\ stack # <<>> /\ ret.set
    /\ Top.fn = "resume" /\ Top.pc = "afterResume"
    /\ LET f == Top
           id == f.batch[f.i].id
           failed == ret.err # NilErr
       IN \E ok \in (IF failed THEN {TRUE} ELSE Outcomes) :
            LET r == IF failed THEN Returning(ret.err, Nil)
                     ELSE IF ~ok THEN Returning(Err("store", Len(trace) + 1), Nil)
                     ELSE Continuing([f EXCEPT !.i = f.i + 1, !.pc = "loop"])
            IN /\ stack' = r.stack /\ ret' = r.ret
               /\ trace' = IF failed THEN trace
                           ELSE Append(trace, [Event("DeleteById") EXCEPT !.n = id, !.ok = ok])
               /\ fails' = IF ~failed /\ ok THEN DeleteById(id) ELSE fails
               /\ faults' = Spend(ok)
    /\ UNCHANGED <<store, failSeq, process, ghost, relational>>

(* ------------------------------ the process ---------------------------- *)

\* A main that exits 0 whatever Crawl or resume returned.
ExitCodeIgnoringError(err) == IF err = err THEN 0 ELSE 1

\* main: os.Exit(1) when Crawl or resume returned an error, else a normal end.
ExitCode(err) == IF err = NilErr THEN 0 ELSE 1

\* main: Crawl or resume has returned; the process ends.
Exit ==
    /\ status = "running" /\ stack = <<>> /\ ret.set
    /\ status' = "done"
    /\ exitCode' = ExitCode(ret.err)
    /\ ret' = NoRet
    /\ trace' = Append(trace, [Event("exit") EXCEPT !.err = ret.err,
                                   !.n = ExitCode(ret.err)])
    /\ UNCHANGED <<stack, store, failTable, run, mode, faults, ghost, relational>>

CrawlRun(no) == [no |-> no, kind |-> "crawl", startTime |-> no, T |-> 0]
ResumeRun(no, T) == [no |-> no, kind |-> "resume", startTime |-> no, T |-> T]

\* The runs that may follow a finished one: a resume run with any threshold
\* up to its own start time; in a replay a resume of everything, then a crawl.
NextRuns ==
    IF mode = "free"
    THEN IF run.no < MaxRuns THEN {ResumeRun(run.no + 1, T) : T \in 0..(run.no + 1)} ELSE {}
    ELSE IF run.no = 1 THEN {ResumeRun(2, 1)}
    ELSE IF run.no = 2 THEN {CrawlRun(3)}
    ELSE {}

FirstFrame(r) ==
    IF r.kind = "crawl" THEN Frame("Crawl", "start", AuthorsRoot, SeriesRoot, Nil, Nil)
    ELSE Frame("resume", "getFails", NoUrl, NoUrl, Nil, Nil)

\* main, started again: the start time is taken once, at boot.
Boot ==
    /\ status = "done"
    /\ \E r \in NextRuns :
         /\ run' = r
         /\ stack' = <<FirstFrame(r)>>
         /\ trace' = Append(trace, [Event("boot") EXCEPT !.by = r.kind, !.n = r.no])
    /\ status' = "running"
    /\ UNCHANGED <<ret, store, failTable, exitCode, mode, faults, ghost, relational>>

InitWith(m) ==
    /\ mode = m
    /\ run = CrawlRun(1)
    /\ stack = <<FirstFrame(CrawlRun(1))>>
    /\ ret = NoRet
    /\ trace = <<[ev |-> "boot", url |-> NoUrl, feed |-> NoFeed, author |-> Nil,
                  series |-> Nil, books |-> <<>>, ok |-> TRUE, by |-> "crawl",
                  err |-> NilErr, n |-> 1]>>
    /\ authorTable = {} /\ bookTable = {} /\ seriesTable = {}
    /\ fails = {} /\ failSeq = 0
    /\ status = "running" /\ exitCode = 0
    /\ faults = 0
    /\ ref = {} /\ res = {}

\* The crawler runs alone: no consumer of the relational store is in a call.
StoreAtRest ==
    /\ db = EmptyDb
    /\ cons = <<IdleConsumer>>
    /\ hist = History("off")

Init == InitWith("free") /\ StoreAtRest /\ unit = NoUnit
InitReplay == InitWith("replay") /\ StoreAtRest /\ unit = NoUnit

Next ==
    \/ CrawlStart
    \/ FetchFeed
    \/ AuthorsEntry
    \/ SeriesEntry
    \/ NextPage
    \/ ConsumeAuthor
    \/ ConsumeBegin
    \/ FetchAuthor
    \/ ConsumeEnd
    \/ ConsumeError
    \/ ResumeDispatch
    \/ DriverGetFails
    \/ DriverResume
    \/ DriverAfterResume
    \/ Exit
    \/ Boot

\* A crawl with failures, then resume runs with failures.
Spec == Init /\ [][Next]_vars

\* A crawl with failures, a resume of all its fail rows against a healthy
\* upstream and store, and a second, healthy crawl to compare the work with.
SpecReplay == InitReplay /\ [][Next]_vars

(* ========================= the storing consumer ======================== *)

crawler == <<stack, ret, trace, authorTable, bookTable, seriesTable, fails, failSeq, run,
             status, exitCode, faults, mode, ref, res, unit>>

Consumers == DOMAIN cons
AllIdle == \A c \in Consumers : cons[c].pc = "idle"

\* Whether the next store write may fail: in the first application only.
StoreOutcomes ==
    IF /\ \/ hist.mode = "calls" /\ hist.pass = 1
          \/ hist.mode = "cut" /\ hist.pass = 2
       /\ hist.faults < MaxStoreFaults
    THEN {TRUE, FALSE} ELSE {TRUE}

\* The call returns err.
ReturnWith(f, err) == [f EXCEPT !.pc = "return", !.err = err]

\* A call of the Consumer begins: the next call of the sequence.
StoreCall ==
    /\ hist.mode = "calls" /\ hist.pass = 1 /\ AllIdle
    /\ Len(hist.calls) < MaxCalls
    /\ \E call \in StoreCalls :
         /\ cons' = [cons EXCEPT ![1] = Enter(call, db)]
         /\ hist' = [hist EXCEPT !.calls = Append(@, call)]
    /\ UNCHANGED <<db, crawler>>

\* The calls from some call on, all of them on a healthy store, have been
\* applied once to the store the calls before them left: their second
\* application begins.
Replay ==
    /\ hist.mode = "calls" /\ hist.pass = 1 /\ AllIdle
    /\ \E k \in (hist.dirty + 1)..Len(hist.calls) :
         hist' = [hist EXCEPT !.pass = 2, !.from = k, !.k = k, !.snap = Tables(db)]
    /\ UNCHANGED <<db, cons, crawler>>

\* The next call of the second application.
ReplayCall ==
    /\ hist.mode = "calls" /\ hist.pass = 2 /\ AllIdle
    /\ hist.k <= Len(hist.calls)
    /\ cons' = [cons EXCEPT ![1] = Enter(hist.calls[hist.k], db)]
    /\ hist' = [hist EXCEPT !.k = @ + 1]
    /\ UNCHANGED <<db, crawler>>

\* The caller has the result of the call.
Return ==
    /\ \E c \in Consumers :
         /\ cons[c].pc = "return"
         /\ cons' = [cons EXCEPT ![c] = IdleConsumer]
         /\ hist' = [hist EXCEPT !.errs = IF cons[c].err = "nil" THEN @ ELSE @ + 1]
    /\ UNCHANGED <<db, crawler>>

\* A read of the store by consumer c, which goes on as frame next.
Read(c, next) ==
    /\ cons' = [cons EXCEPT ![c] = next]
    /\ UNCHANGED <<db, hist, crawler>>

\* A write statement on a table by consumer c: out is what the statement gives
\* when the store takes it, next is how the consumer goes on after success.
\* A statement that fails leaves the tables as they were and ends the call.
Exec(c, ok, table, out, next) ==
    LET o == IF ok THEN out ELSE Failed("store", db)
    IN /\ db' = o.db
       /\ cons' = [cons EXCEPT ![c] = IF o.err = "nil" THEN next
                                      ELSE ReturnWith(cons[c], o.err)]
       /\ hist' = [hist EXCEPT !.faults = IF ok THEN @ ELSE @ + 1,
                              !.dirty = IF ok THEN @ ELSE Len(hist.calls),
                              !.writes = IF hist.pass = 2 THEN @ \cup {table} ELSE @]
       /\ UNCHANGED crawler

(* ----------------------------- ConsumeAuthor --------------------------- *)

\* ConsumeAuthor: the lookup; an unchanged author is skipped.
AuthorGet ==
    \E c \in Consumers :
        LET f == cons[c]
            a == AuthorsGetById(db, Deref(f.author).id)
        IN /\ f.pc = "Authors.GetById"
           /\ Read(c, IF a # Nil /\ Deref(a) = Deref(f.author)
                      THEN ReturnWith(f, "nil")
                      ELSE [f EXCEPT !.pc = "Authors.Save"])

\* ConsumeAuthor: the save of a new or changed author.
AuthorSave ==
    \E c \in Consumers, ok \in StoreOutcomes :
        LET f == cons[c]
        IN /\ f.pc = "Authors.Save"
           /\ Exec(c, ok, "author", Done(AuthorsSave(db, Deref(f.author))),
                   ReturnWith(f, "nil"))

(* ----------------------------- ConsumeBooks ---------------------------- *)

\* After the hydration loop: the genre lookup, which an empty title list skips
\* together with the insert.
AfterHydration(f) ==
    IF BatchGenres(f.books) = {} THEN [f EXCEPT !.pc = "Books.GetByIds"]
    ELSE [f EXCEPT !.pc = "Genres.GetIdByTitles"]

\* A consumer that takes every author for stored.
HydrationSkipped(f, known) == AfterHydration(f)

\* A hydration loop that fetches every author of the batch.
HydrationOfAll(f, known) ==
    [f EXCEPT !.pc = "fetchAuthor", !.todo = BatchAuthors(f.books)]

\* The hydration loop over the authors of the batch that GetByIds did not
\* return.
Hydration(f, known) ==
    IF BatchAuthors(f.books) \subseteq known THEN AfterHydration(f)
    ELSE [f EXCEPT !.pc = "fetchAuthor", !.todo = BatchAuthors(f.books) \ known]

\* ConsumeBooks: the lookup of the authors of the batch.
BooksAuthorsGet ==
    \E c \in Consumers :
        LET f == cons[c]
        IN /\ f.pc = "Authors.GetByIds"
           /\ Read(c, Hydration(f, AuthorsGetByIds(db, BatchAuthors(f.books))))

\* ConsumeBooks: one round of the hydration loop, the authors in the order of
\* the map iteration (any).
Hydrate ==
    \E c \in Consumers, ok \in StoreOutcomes :
        LET f == cons[c]
        IN /\ f.pc = "fetchAuthor"
           /\ \E id \in f.todo :
                Exec(c, ok, "author", Done(AuthorsSave(db, fetchAuthor(id))),
                     IF f.todo = {id}
                     THEN AfterHydration([f EXCEPT !.todo = {}, !.asked = Append(@, id)])
                     ELSE [f EXCEPT !.todo = @ \ {id}, !.asked = Append(@, id)])

\* ConsumeBooks: the lookup of the genre titles; the titles that are no key of
\* the returned map are the new ones.
GenresLookup ==
    \E c \in Consumers :
        LET f == cons[c]
            gs == GenresGetIdByTitles(db, BatchGenres(f.books))
            new == BatchGenres(f.books) \ Titles(gs)
        IN /\ f.pc = "Genres.GetIdByTitles"
           /\ Read(c, IF new = {} THEN [f EXCEPT !.gs = gs, !.pc = "Books.GetByIds"]
                      ELSE [f EXCEPT !.gs = gs, !.new = new, !.pc = "Genres.Insert"])

\* Genres.Insert: the insert statement, the new titles in the order of the map
\* iteration (any); titles that got no row are looked up again.
GenresInsert ==
    \E c \in Consumers, ok \in StoreOutcomes :
        LET f == cons[c]
        IN /\ f.pc = "Genres.Insert"
           /\ \E titles \in Perms(f.new) :
                LET out == InsertGenreRows(db, titles)
                IN Exec(c, ok, "genre", Done(out.db),
                        IF f.new \subseteq Titles(out.rows)
                        THEN [f EXCEPT !.gs = @ \cup out.rows, !.new = {},
                                       !.pc = "Books.GetByIds"]
                        ELSE [f EXCEPT !.got = out.rows, !.new = @ \ Titles(out.rows),
                                       !.pc = "Genres.Insert.GetIdByTitles"])

\* A Genres.Insert that returns only the rows its own statement created.
GenresRefetchNothing ==
    \E c \in Consumers :
        LET f == cons[c]
        IN /\ f.pc = "Genres.Insert.GetIdByTitles"
           /\ Read(c, [f EXCEPT !.gs = @ \cup f.got,
                                !.got = {}, !.new = {}, !.pc = "Books.GetByIds"])

\* Genres.Insert: the second lookup, for the titles the insert skipped.
GenresRefetch ==
    \E c \in Consumers :
        LET f == cons[c]
        IN /\ f.pc = "Genres.Insert.GetIdByTitles"
           /\ Read(c, [f EXCEPT !.gs = @ \cup f.got \cup GenresGetIdByTitles(db, f.new),
                                !.got = {}, !.new = {}, !.pc = "Books.GetByIds"])

\* ConsumeSeries goes on with the series link step once its ConsumeBooks call
\* has returned; ConsumeBooks returns.
AfterBooks(f) ==
    IF f.fn = "ConsumeSeries" THEN [f EXCEPT !.pc = "LinkSeriesWithBooks.Delete"]
    ELSE ReturnWith(f, "nil")

\* The link loop of ConsumeBooks at the saved book i.
LinkLoop(f, i) ==
    IF i > Len(f.save) THEN AfterBooks(f)
    ELSE [f EXCEPT !.i = i, !.pc = "LinkBookAndAuthors.Delete"]

\* ConsumeBooks: the lookup of the stored books and the diff.
BooksGet ==
    \E c \in Consumers :
        LET f == cons[c]
            save == SaveBooks(BooksGetByIds(db, BatchIds(f.books)), f.books)
        IN /\ f.pc = "Books.GetByIds"
           /\ Read(c, IF save = <<>> THEN AfterBooks(f)
                      ELSE [f EXCEPT !.save = save, !.pc = "Books.Save"])

\* ConsumeBooks: the save of the new and changed books.
BooksSaveStep ==
    \E c \in Consumers, ok \in StoreOutcomes :
        LET f == cons[c]
        IN /\ f.pc = "Books.Save"
           /\ Exec(c, ok, "book", BooksSaveExec(db, f.save), LinkLoop(f, 1))

\* After LinkBookAndAuthors: the genre ids of the book are taken from the map
\* by the titles of the book; a title that is no key ends the call.
ResolveGenres(f) ==
    IF ~(Range(f.save[f.i].genres) \subseteq Titles(f.gs))
    THEN ReturnWith(f, "impossible lacdkmsgtr")
    ELSE [f EXCEPT !.pc = "LinkBookAndGenres.Delete"]

\* The genre ids of the saved book i, in the order of its titles.
bookGenres(f) ==
    [j \in 1..Len(f.save[f.i].genres) |-> IdOfTitle(f.gs, f.save[f.i].genres[j])]

\* LinkBookAndAuthors: the delete statement.
LinkAuthorsDelete ==
    \E c \in Consumers, ok \in StoreOutcomes :
        LET f == cons[c]
        IN /\ f.pc = "LinkBookAndAuthors.Delete"
           /\ Exec(c, ok, "book_author", Done(DeleteBookAuthor(db, f.save[f.i].id)),
                   IF f.save[f.i].authors = <<>> THEN ResolveGenres(f)
                   ELSE [f EXCEPT !.pc = "LinkBookAndAuthors.Insert"])

\* LinkBookAndAuthors: the insert statement.
LinkAuthorsInsert ==
    \E c \in Consumers, ok \in StoreOutcomes :
        LET f == cons[c]
        IN /\ f.pc = "LinkBookAndAuthors.Insert"
           /\ Exec(c, ok, "book_author",
                   InsertBookAuthor(db, f.save[f.i].id, f.save[f.i].authors),
                   ResolveGenres(f))

\* LinkBookAndGenres: the delete statement.
LinkGenresDelete ==
    \E c \in Consumers, ok \in StoreOutcomes :
        LET f == cons[c]
        IN /\ f.pc = "LinkBookAndGenres.Delete"
           /\ Exec(c, ok, "book_genre", Done(DeleteBookGenre(db, f.save[f.i].id)),
                   IF f.save[f.i].genres = <<>> THEN LinkLoop(f, f.i + 1)
                   ELSE [f EXCEPT !.pc = "LinkBookAndGenres.Insert"])

\* LinkBookAndGenres: the insert statement.
LinkGenresInsert ==
    \E c \in Consumers, ok \in StoreOutcomes :
        LET f == cons[c]
        IN /\ f.pc = "LinkBookAndGenres.Insert"
           /\ Exec(c, ok, "book_genre",
                   InsertBookGenre(db, f.save[f.i].id, bookGenres(f)),
                   LinkLoop(f, f.i + 1))

(* ----------------------------- ConsumeSeries --------------------------- *)

\* A ConsumeSeries that links the series before it consumes the books.
AfterSeriesSaveLinkFirst(f) == [f EXCEPT !.pc = "LinkSeriesWithBooks.Delete"]

\* ConsumeSeries after the series is stored: the ConsumeBooks call.
AfterSeriesSave(f) == [f EXCEPT !.pc = "Authors.GetByIds"]

\* ConsumeSeries: the lookup; an unchanged series is not saved.
SeriesGet ==
    \E c \in Consumers :
        LET f == cons[c]
            ex == SeriesGetById(db, Deref(f.series).id)
        IN /\ f.pc = "Series.GetById"
           /\ Read(c, IF ex # Nil /\ Deref(ex) = Deref(f.series) THEN AfterSeriesSave(f)
                      ELSE [f EXCEPT !.pc = "Series.Save"])

\* ConsumeSeries: the save of a new or changed series.
SeriesSaveStep ==
    \E c \in Consumers, ok \in StoreOutcomes :
        LET f == cons[c]
        IN /\ f.pc = "Series.Save"
           /\ Exec(c, ok, "series", Done(SeriesSave(db, Deref(f.series))),
                   AfterSeriesSave(f))

\* The book ids of the call, in the order of the input.
bookIds(f) == [j \in 1..Len(f.books) |-> f.books[j].id]

\* LinkSeriesWithBooks: the delete statement.
LinkSeriesDelete ==
    \E c \in Consumers, ok \in StoreOutcomes :
        LET f == cons[c]
        IN /\ f.pc = "LinkSeriesWithBooks.Delete"
           /\ Exec(c, ok, "book_series", Done(DeleteBookSeries(db, Deref(f.series).id)),
                   [f EXCEPT !.pc = "LinkSeriesWithBooks.Insert"])

\* LinkSeriesWithBooks: the insert statement.
LinkSeriesInsert ==
    \E c \in Consumers, ok \in StoreOutcomes :
        LET f == cons[c]
        IN /\ f.pc = "LinkSeriesWithBooks.Insert"
           /\ Exec(c, ok, "book_series",
                   InsertBookSeries(db, Deref(f.series).id, bookIds(f)),
                   ReturnWith(f, "nil"))

(* ----------------------------- specifications -------------------------- *)

\* The store and one consumer, the crawler at rest.
InitStore ==
    /\ InitWith("off")
    /\ db = EmptyDb
    /\ cons = <<IdleConsumer>>
    /\ hist = History("calls")
    /\ unit = NoUnit

NextStore ==
    \/ StoreCall
    \/ Replay
    \/ ReplayCall
    \/ Return
    \/ AuthorGet
    \/ AuthorSave
    \/ BooksAuthorsGet
    \/ Hydrate
    \/ GenresLookup
    \/ GenresInsert
    \/ GenresRefetch
    \/ BooksGet
    \/ BooksSaveStep
    \/ LinkAuthorsDelete
    \/ LinkAuthorsInsert
    \/ LinkGenresDelete
    \/ LinkGenresInsert
    \/ SeriesGet
    \/ SeriesSaveStep
    \/ LinkSeriesDelete
    \/ LinkSeriesInsert

\* A sequence of Consumer calls on the empty store, store writes failing, and
\* then the same sequence again on a healthy store.
SpecStore == InitStore /\ [][NextStore]_vars

\* Two consumers in ConsumeBooks at once, on the empty store, with books
\* that carry the same genre title "Fantasy".
InitRace ==
    /\ InitWith("off")
    /\ db = EmptyDb
    /\ \E b \in {<<K4>>, <<K5>>} :
         cons = <<Enter(Call("ConsumeBooks", Nil, Nil, <<K1>>), EmptyDb),
                  Enter(Call("ConsumeBooks", Nil, Nil, b), EmptyDb)>>
    /\ hist = History("race")
    /\ unit = NoUnit

NextRace ==
    \/ BooksAuthorsGet
    \/ Hydrate
    \/ GenresLookup
    \/ GenresInsert
    \/ GenresRefetch
    \/ BooksGet
    \/ BooksSaveStep
    \/ LinkAuthorsDelete
    \/ LinkAuthorsInsert
    \/ LinkGenresDelete
    \/ LinkGenresInsert

\* Every interleaving of the statements of the two calls.
SpecRace == InitRace /\ [][NextRace]_vars

(* ------------------------- the diff of ConsumeBooks -------------------- *)

MaxBatches == 2

\* One book in the versions a feed can carry of it, each differing from the
\* first in one of the fields bookNeedsUpdate compares, and a second book.
Versions ==
    {K1,
     [K1 EXCEPT !.title = "T2"],
     [K1 EXCEPT !.authors = <<"a1", "a2">>],
     [K1 EXCEPT !.authors = <<"a2", "a1">>],
     [K1 EXCEPT !.genres = <<"Epic", "Fantasy">>],
     [K1 EXCEPT !.language = "ru"],
     [K1 EXCEPT !.year = 1985],
     [K1 EXCEPT !.about = "about"],
     [K1 EXCEPT !.cover = UrlString(U(<<"i", "b1.jpg">>, ""))]}

DiffCalls ==
    {Call("ConsumeBooks", Nil, Nil, b)
       : b \in {<<K3>>} \cup {<<v>> : v \in Versions}
                \cup {<<v, K3>> : v \in Versions} \cup {<<K3, v>> : v \in Versions}}

\* A call of ConsumeBooks begins, on the store the calls before it left.
DiffCall ==
    /\ hist.mode = "diff" /\ AllIdle
    /\ Len(hist.calls) < MaxBatches
    /\ \E call \in DiffCalls :
         /\ cons' = [cons EXCEPT ![1] = Enter(call, db)]
         /\ hist' = [hist EXCEPT !.calls = Append(@, call)]
    /\ UNCHANGED <<db, crawler>>

InitDiff ==
    /\ InitWith("off")
    /\ db = EmptyDb
    /\ cons = <<IdleConsumer>>
    /\ hist = History("diff")
    /\ unit = NoUnit

NextDiff ==
    \/ DiffCall
    \/ Return
    \/ BooksAuthorsGet
    \/ Hydrate
    \/ GenresLookup
    \/ GenresInsert
    \/ BooksGet
    \/ BooksSaveStep
    \/ LinkAuthorsDelete
    \/ LinkAuthorsInsert
    \/ LinkGenresDelete
    \/ LinkGenresInsert

\* Calls of ConsumeBooks one after another on a healthy store, from the empty
\* store on.  No batch holds a genre in two spellings, so the second lookup
\* of Genres.Insert is never reached and is no step here.
SpecDiff == InitDiff /\ [][NextDiff]_vars

(* ----------------------------- an interrupted call -------------------- *)

\* What the store holds when the call comes: nothing, or what one earlier call
\* left.
CutBefore ==
    {Call("ConsumeBooks", Nil, Nil, b) : b \in {<<K1>>, <<K3>>, <<K2, K3>>}}
    \cup {Call("ConsumeSeries", Nil, Ref(Saga), <<K4>>)}

\* The calls that are interrupted.
CutCalls ==
    {Call("ConsumeBooks", Nil, Nil, b)
       : b \in {<<K1>>, <<K4>>, <<K1, K4>>, <<[K1 EXCEPT !.title = "T2"]>>,
                <<[K1 EXCEPT !.authors = <<"a2", "a1">>], K3>>}}
    \cup {Call("ConsumeSeries", Nil, Ref(Saga), <<K1, K4>>),
          Call("ConsumeSeries", Nil, Ref(SagaII), <<K1>>)}

\* The passes of the comparison: 1 an earlier call, 2 the call with a write
\* that fails, 3 the same call again, 4 the same call on a second store that
\* holds what the first held before pass 2.  before is that store, replayed
\* the tables after pass 3.
CutHistory ==
    [mode |-> "cut", pass |-> 1, calls |-> <<>>, from |-> 0, k |-> 0,
     snap |-> Tables(EmptyDb), writes |-> {}, faults |-> 0, dirty |-> 0, errs |-> 0,
     before |-> EmptyDb, replayed |-> Tables(EmptyDb)]

InitCut ==
    /\ InitWith("off")
    /\ db = EmptyDb
    /\ cons = <<IdleConsumer>>
    /\ hist = CutHistory
    /\ unit = NoUnit

\* An earlier call, on a healthy store.
CutEarlier ==
    /\ hist.mode = "cut" /\ hist.pass = 1 /\ AllIdle /\ hist.k = 0
    /\ \E call \in CutBefore :
         /\ cons' = [cons EXCEPT ![1] = Enter(call, db)]
         /\ hist' = [hist EXCEPT !.k = 1]
    /\ UNCHANGED <<db, crawler>>

\* The call begins; one of its writes may fail.
CutCall ==
    /\ hist.mode = "cut" /\ hist.pass = 1 /\ AllIdle /\ hist.errs = 0
    /\ \E call \in CutCalls :
         /\ cons' = [cons EXCEPT ![1] = Enter(call, db)]
         /\ hist' = [hist EXCEPT !.pass = 2, !.calls = <<call>>, !.before = db]
    /\ UNCHANGED <<db, crawler>>

\* The call was cut short by the failed write: the same call again.
CutReplay ==
    /\ hist.mode = "cut" /\ hist.pass = 2 /\ AllIdle /\ hist.errs = 1
    /\ cons' = [cons EXCEPT ![1] = Enter(hist.calls[1], db)]
    /\ hist' = [hist EXCEPT !.pass = 3]
    /\ UNCHANGED <<db, crawler>>

\* The same call, not interrupted, on the store as it was before pass 2.
CutWhole ==
    /\ hist.mode = "cut" /\ hist.pass = 3 /\ AllIdle /\ hist.errs = 1
    /\ db' = hist.before
    /\ cons' = [cons EXCEPT ![1] = Enter(hist.calls[1], hist.before)]
    /\ hist' = [hist EXCEPT !.pass = 4, !.replayed = Tables(db)]
    /\ UNCHANGED crawler

NextCut ==
    \/ CutEarlier
    \/ CutCall
    \/ CutReplay
    \/ CutWhole
    \/ Return
    \/ BooksAuthorsGet
    \/ Hydrate
    \/ GenresLookup
    \/ GenresInsert
    \/ GenresRefetch
    \/ BooksGet
    \/ BooksSaveStep
    \/ LinkAuthorsDelete
    \/ LinkAuthorsInsert
    \/ LinkGenresDelete
    \/ LinkGenresInsert
    \/ SeriesGet
    \/ SeriesSaveStep
    \/ LinkSeriesDelete
    \/ LinkSeriesInsert

\* A call that a failed write cuts short and its replay, and the same call
\* run whole on a second store.
SpecCut == InitCut /\ [][NextCut]_vars

(* ===================== functions called on their own =================== *)

\* Everything but the function under call.
atRest == <<stack, ret, trace, authorTable, bookTable, seriesTable, fails, failSeq, run,
            status, exitCode, faults, mode, ref, res, db, cons, hist>>

\* The author a books crawl holds: the index entry's id, filled by fillInfo.
OwnAuthor(n) ==
    fillInfo(Upstream(U(<<"opds", "author", n>>, "")), U(<<"opds", "author", n>>, ""),
             Author(<<"tag", "author", n>>, "", "", <<>>)).author

\* The resolvers the engine builds: flibustaBooks.crawl with its author and
\* feed, flibustaSeries.sequence with no author and the series feed.
Resolvers ==
    {[author |-> Ref(OwnAuthor("1")), feed |-> U(<<"opds", "authorbooks", "1">>, "")],
     [author |-> Ref(OwnAuthor("1")), feed |-> U(<<"opds", "authorbooks", "1">>, "page=2")],
     [author |-> Ref(OwnAuthor("2")), feed |-> U(<<"opds", "authorbooks", "2">>, "")],
     [author |-> Ref(OwnAuthor("8")), feed |-> U(<<"opds", "authorbooks", "8">>, "")],
     [author |-> Nil, feed |-> U(<<"opds", "sequencebooks", "1">>, "")],
     [author |-> Nil, feed |-> U(<<"opds", "sequencebooks", "2">>, "")]}

\* The ids a resolver is asked for, ids of no author among them.
ResolverIds ==
    {<<"tag", "author", n>> : n \in Digits}
    \cup {<<"tag", "author", "x">>, <<"tag", "book", "1">>, <<"tag", "author">>,
          <<"tag", "author", "1", "alphabet">>}

InitResolve ==
    /\ InitWith("off") /\ StoreAtRest
    /\ \E ar \in Resolvers, id \in ResolverIds :
         unit = [fn |-> "resolve", ar |-> ar, id |-> id, done |-> FALSE]

\* ar.resolve(id), the request of the author description succeeding or not.
Resolve ==
    /\ unit.fn = "resolve" /\ ~unit.done
    /\ \E ok \in BOOLEAN :
         unit' = [fn |-> "resolve", ar |-> unit.ar, id |-> unit.id, done |-> TRUE,
                  ok |-> ok, out |-> resolve(unit.ar, unit.id, ok)]
    /\ UNCHANGED atRest

NextResolve == Resolve

\* A resolver and an id, and one call of resolve.
SpecResolve == InitResolve /\ [][NextResolve]_vars

(* ---------------------------- XML cleansing ---------------------------- *)

\* utf8.RuneError, U+FFFD.
RuneError == 65533

\* The number of bytes the lead byte p0 announces (0: not a lead byte), and
\* the range its second byte must lie in.
SizeOf(p0) ==
    CASE p0 < 128 -> 1
      [] p0 \in 194..223 -> 2
      [] p0 \in 224..239 -> 3
      [] p0 \in 240..244 -> 4
      [] OTHER -> 0
Lo(p0) == CASE p0 = 224 -> 160 [] p0 = 240 -> 144 [] OTHER -> 128
Hi(p0) == CASE p0 = 237 -> 159 [] p0 = 244 -> 143 [] OTHER -> 191
IsContinuation(b) == b \in 128..191

\* utf8.DecodeRune of a buffer that is not empty: the first rune and its
\* width, or (RuneError, 1) when the bytes are no UTF-8 encoding.
DecodeRune(p) ==
    LET sz == SizeOf(p[1])
        invalid == [r |-> RuneError, size |-> 1]
    IN IF sz = 1 THEN [r |-> p[1], size |-> 1]
       ELSE IF sz = 0 \/ Len(p) < sz THEN invalid
       ELSE IF p[2] < Lo(p[1]) \/ Hi(p[1]) < p[2] THEN invalid
       ELSE IF sz = 2 THEN [r |-> (p[1] % 32) * 64 + (p[2] % 64), size |-> 2]
       ELSE IF ~IsContinuation(p[3]) THEN invalid
       ELSE IF sz = 3
       THEN [r |-> (p[1] % 16) * 4096 + (p[2] % 64) * 64 + (p[3] % 64), size |-> 3]
       ELSE IF ~IsContinuation(p[4]) THEN invalid
       ELSE [r |-> (p[1] % 8) * 262144 + (p[2] % 64) * 4096 + (p[3] % 64) * 64
                      + (p[4] % 64),
             size |-> 4]

\* A range check that lets every rune through.
isInCharacterRangeAny(r) == TRUE

\* isInCharacterRange: the Char production of XML 1.0.
isInCharacterRange(r) ==
    \/ r = 9
    \/ r = 10
    \/ r = 13
    \/ r >= 32 /\ r <= 55295
    \/ r >= 57344 /\ r <= 65533
    \/ r >= 65536 /\ r <= 1114111

RECURSIVE removeLoop(_, _, _)
\* The loop of removeDisallowedCodepoints over what is left of the buffer.
removeLoop(bs, buf, kept) ==
    IF buf = <<>> THEN kept
    ELSE LET d == DecodeRune(buf)
         IN IF d.r = RuneError /\ d.size = 1 THEN bs
            ELSE removeLoop(bs, SubSeq(buf, d.size + 1, Len(buf)),
                            IF isInCharacterRange(d.r)
                            THEN kept \o SubSeq(buf, 1, d.size)
                            ELSE kept)

removeDisallowedCodepoints(bs) == removeLoop(bs, bs, <<>>)

\* Pieces of input: encodings of runes in and out of the Char production
\* (U+0001, tab, U+000B, U+001F, "A", U+007F, U+00E9, U+D7FF, U+E000, U+FFFD,
\* U+FFFE, U+10000), and bytes that are no UTF-8: 0xFF, a lead byte and a
\* continuation byte on their own, the encoding of a surrogate.
Pieces ==
    {<<1>>, <<9>>, <<11>>, <<31>>, <<65>>, <<127>>, <<195, 169>>, <<237, 159, 191>>,
     <<238, 128, 128>>, <<239, 191, 189>>, <<239, 191, 190>>, <<240, 144, 128, 128>>,
     <<255>>, <<195>>, <<169>>, <<237, 160, 128>>}

\* Pieces in one input.
MaxPieces == 3

RECURSIVE BuffersOf(_)
\* The buffers of up to n pieces.
BuffersOf(n) ==
    IF n = 0 THEN {<<>>}
    ELSE BuffersOf(n - 1) \cup {b \o p : b \in BuffersOf(n - 1), p \in Pieces}

InitCleanse ==
    /\ InitWith("off") /\ StoreAtRest
    /\ \E bs \in BuffersOf(MaxPieces) :
         unit = [fn |-> "removeDisallowedCodepoints", bs |-> bs, done |-> FALSE]

\* removeDisallowedCodepoints(bs, l).
Cleanse ==
    /\ unit.fn = "removeDisallowedCodepoints" /\ ~unit.done
    /\ unit' = [fn |-> unit.fn, bs |-> unit.bs, done |-> TRUE,
                out |-> removeDisallowedCodepoints(unit.bs)]
    /\ UNCHANGED atRest

NextCleanse == Cleanse

\* A buffer, and one call of removeDisallowedCodepoints.
SpecCleanse == InitCleanse /\ [][NextCleanse]_vars

(* ------------------------------- the fetch ----------------------------- *)

\* What a request comes to: h.Do fails ("do"), reading the body fails
\* ("read"), or a response arrives, with its status and its body: bytes ahead
\* of the root element, and the document, which is the feed of the URL, text
\* that is no XML, or nothing.
Answers ==
    [transport : {"ok", "do", "read"}, status : {200, 404, 500},
     lead : {<<>>, <<1>>, <<9>>, <<255>>}, doc : {"feed", "text", "empty"}]

\* The URLs asked for.
FetchUrls ==
    {AuthorsRoot, U(<<"opds", "authorsindex">>, "page=2"), U(<<"opds", "author", "1">>, ""),
     U(<<"opds", "authorbooks", "1">>, ""), SeriesRoot, U(<<"opds", "sequencebooks", "1">>, "")}

RECURSIVE xmlText(_)
\* The decoder of encoding/xml accepts the bytes as text: valid UTF-8, every
\* rune in the character range.
xmlText(bs) ==
    IF bs = <<>> THEN TRUE
    ELSE LET d == DecodeRune(bs)
         IN /\ ~(d.r = RuneError /\ d.size = 1)
            /\ isInCharacterRange(d.r)
            /\ xmlText(SubSeq(bs, d.size + 1, Len(bs)))

\* fetchAndUnmarshal: the error it returns and the feed it leaves in v.  The
\* status of the response is not read.
fetchAndUnmarshal(url, answer) ==
    IF answer.transport = "do" THEN [err |-> "fetching", feed |-> Nil]
    ELSE IF answer.transport = "read"
    THEN [err |-> "fetching (reading response)", feed |-> Nil]
    ELSE LET bs == removeDisallowedCodepoints(answer.lead)
         IN IF ~xmlText(bs) \/ answer.doc # "feed"
            THEN [err |-> "unmarshalling", feed |-> Nil]
            ELSE [err |-> "nil", feed |-> Ref(Upstream(url))]

InitFetch ==
    /\ InitWith("off") /\ StoreAtRest
    /\ \E url \in FetchUrls, answer \in Answers :
         unit = [fn |-> "fetchAndUnmarshal", url |-> url, answer |-> answer, done |-> FALSE]

\* fetchAndUnmarshal(url, &feed, resourceType, client, l).
FetchAndUnmarshal ==
    /\ unit.fn = "fetchAndUnmarshal" /\ ~unit.done
    /\ unit' = [fn |-> unit.fn, url |-> unit.url, answer |-> unit.answer, done |-> TRUE,
                out |-> fetchAndUnmarshal(unit.url, unit.answer)]
    /\ UNCHANGED atRest

NextFetch == FetchAndUnmarshal

\* A URL and what the upstream answers, and one call of fetchAndUnmarshal.
SpecFetch == InitFetch /\ [][NextFetch]_vars

(* --------------------------- genres of a book -------------------------- *)

\* Strings as sequences of code points; the order of UTF-8 bytes, which Go
\* compares strings by, is the order of the code points.

\* unicode.ToLower on the letters of the terms: A-Z and the Cyrillic capitals.
toLowerRune(r) ==
    IF (r >= 65 /\ r <= 90) \/ (r >= 1040 /\ r <= 1071) THEN r + 32 ELSE r

\* A lowering that keeps the case.
stringsToLowerNot(s) == s

\* strings.ToLower.
stringsToLower(s) == [k \in 1..Len(s) |-> toLowerRune(s[k])]

\* unicode.IsSpace on the code points of the terms.
isSpace(r) == r \in {9, 10, 11, 12, 13, 32}

RECURSIVE stringsTrimSpace(_)
\* strings.TrimSpace.
stringsTrimSpace(s) ==
    IF s = <<>> THEN s
    ELSE IF isSpace(Head(s)) THEN stringsTrimSpace(Tail(s))
    ELSE IF isSpace(s[Len(s)]) THEN stringsTrimSpace(SubSeq(s, 1, Len(s) - 1))
    ELSE s

RECURSIVE stringLess(_, _)
\* s < t of two Go strings.
stringLess(s, t) ==
    IF t = <<>> THEN FALSE
    ELSE IF s = <<>> THEN TRUE
    ELSE IF Head(s) # Head(t) THEN Head(s) < Head(t)
    ELSE stringLess(Tail(s), Tail(t))

RECURSIVE sortStrings(_)
\* sort.Strings of strings that differ one from another.
sortStrings(ss) ==
    IF ss = <<>> THEN <<>>
    ELSE LET least == CHOOSE k \in 1..Len(ss) :
                          \A j \in 1..Len(ss) : j # k => stringLess(ss[k], ss[j])
         IN <<ss[least]>> \o sortStrings([j \in 1..(Len(ss) - 1) |->
                                             IF j < least THEN ss[j] ELSE ss[j + 1]])

RECURSIVE genreLoop(_, _, _)
\* The loop of parseBook over entry.Category: the trimmed terms, the first of
\* each lowered spelling.
genreLoop(category, seenGenres, genres) ==
    IF category = <<>> THEN genres
    ELSE LET term == stringsTrimSpace(Head(category))
         IN IF stringsToLower(term) \in seenGenres
            THEN genreLoop(Tail(category), seenGenres, genres)
            ELSE genreLoop(Tail(category), seenGenres \cup {stringsToLower(term)},
                           Append(genres, term))

\* parseBook: the Genres of the book.
parseBookGenres(category) == sortStrings(genreLoop(category, {}, <<>>))

\* Category terms: "a", "A", "b", "B", "aa", "Aa", "AA", "Ba", " a", "a ",
\* "a b", " ", "", and the Cyrillic "А", "а".
Terms ==
    {<<97>>, <<65>>, <<98>>, <<66>>, <<97, 97>>, <<65, 97>>, <<65, 65>>, <<66, 97>>,
     <<32, 97>>, <<97, 32>>, <<97, 32, 98>>, <<32>>, <<>>, <<1040>>, <<1072>>}

\* Category elements of one entry.
MaxTerms == 3

RECURSIVE CategoriesOf(_)
CategoriesOf(n) ==
    IF n = 0 THEN {<<>>}
    ELSE CategoriesOf(n - 1) \cup {Append(c, t) : c \in CategoriesOf(n - 1), t \in Terms}

InitGenres ==
    /\ InitWith("off") /\ StoreAtRest
    /\ \E category \in CategoriesOf(MaxTerms) :
         unit = [fn |-> "parseBook", category |-> category, done |-> FALSE]

\* parseBook(entry, feedUrl, l), for its Genres.
ParseBook ==
    /\ unit.fn = "parseBook" /\ ~unit.done
    /\ unit' = [fn |-> unit.fn, category |-> unit.category, done |-> TRUE,
                genres |-> parseBookGenres(unit.category)]
    /\ UNCHANGED atRest

NextGenres == ParseBook

\* The category terms of an entry, and one call of parseBook.
SpecGenres == InitGenres /\ [][NextGenres]_vars

(* ------------------------------ chooseLink ----------------------------- *)

\* Links of an entry or a feed: next links (one with rel and type padded),
\* catalog links to an author, an index and a series, a page, two images.
LinkPool ==
    {Link(linkRelNext, linkTypeCatalog, U(<<>>, "page=2")),
     Link(" next ", " application/atom+xml;profile=opds-catalog ", U(<<>>, "page=3")),
     Catalog(<<"opds", "author", "1">>),
     Catalog(<<"opds", "authorsindex", "A">>),
     Catalog(<<"opds", "sequencebooks", "1">>),
     Link("alternate", "text/html", U(<<"a">>, "")),
     Link(linkRelImage, "image/jpeg", U(<<"i", "1">>, "")),
     Link(linkRelImage, "image/png", U(<<"i", "2">>, ""))}

\* The matchers of the call sites.
Matchers == {"isCatalog", "isAuthorLink", "isSequenceLink", "isImage", "isNext"}

\* Links of one entry.
MaxLinks == 3

RECURSIVE LinksOf(_)
LinksOf(n) ==
    IF n = 0 THEN {<<>>}
    ELSE LinksOf(n - 1) \cup {Append(ls, l) : ls \in LinksOf(n - 1), l \in LinkPool}

InitLinks ==
    /\ InitWith("off") /\ StoreAtRest
    /\ \E links \in LinksOf(MaxLinks), matcher \in Matchers :
         unit = [fn |-> "chooseLink", links |-> links, matcher |-> matcher, done |-> FALSE]

\* The range variable of a for statement, as the go directive of the module
\* file sets it: one for each iteration (go 1.22 and later) or one for the
\* loop.  The module file is not among the sources; "the first match wins"
\* of the specification is the language of go 1.22.
loopvar == "iteration"

\* chooseLink(e, matcher, l); shared is what the same code returns when built
\* with one range variable for the loop.
ChooseLink ==
    /\ unit.fn = "chooseLink" /\ ~unit.done
    /\ unit' = [fn |-> unit.fn, links |-> unit.links, matcher |-> unit.matcher,
                done |-> TRUE,
                out |-> IF loopvar = "iteration"
                        THEN chooseLink(unit.links, unit.matcher)
                        ELSE chooseLinkShared(unit.links, unit.matcher),
                shared |-> chooseLinkShared(unit.links, unit.matcher)]
    /\ UNCHANGED atRest

NextLinks == ChooseLink

\* The links of an entry and a matcher, and one call of chooseLink.
SpecLinks == InitLinks /\ [][NextLinks]_vars

(* ---------------------------- the books of a page ---------------------- *)

\* Entries of a books page or a series feed: two entries of book 1 that differ
\* in their authors, two more books and an entry that is no book.
EntryPool ==
    {BookEntry("1", <<<<"a", "1">>>>), BookEntry("1", <<<<"a", "9">>>>),
     BookEntry("2", <<<<"a", "1">>>>), BookEntry("3", <<>>),
     Entry(<<"tag", "other", "y">>, "?", "", <<>>, <<>>)}

MaxEntries == 3

RECURSIVE EntriesOf(_)
EntriesOf(n) ==
    IF n = 0 THEN {<<>>}
    ELSE EntriesOf(n - 1) \cup {Append(es, e) : es \in EntriesOf(n - 1), e \in EntryPool}

InitCollect ==
    /\ InitWith("off") /\ StoreAtRest
    /\ \E entries \in EntriesOf(MaxEntries), fn \in {"books.crawl", "sequence"} :
         unit = [fn |-> fn, entries |-> entries, done |-> FALSE]

\* The entry loop of flibustaBooks.crawl or of flibustaSeries.sequence over
\* the entries of the feed.
Collect ==
    /\ unit.fn \in {"books.crawl", "sequence"} /\ ~unit.done
    /\ unit' = [fn |-> unit.fn, entries |-> unit.entries, done |-> TRUE,
                bks |-> CollectBooks(unit.entries, {})]
    /\ UNCHANGED atRest

NextCollect == Collect

\* The entries of a feed, and the batch the entry loop makes of them.
SpecCollect == InitCollect /\ [][NextCollect]_vars

(* ----------------------------- year of a book -------------------------- *)

\* 1<<16 - 1, the greatest value of bitSize 16.
maxVal == 65535

RECURSIVE parseUintWide(_, _)
\* A parse that takes every digit string and keeps the low 16 bits.
parseUintWide(s, n) ==
    IF s = <<>> THEN [n |-> n % (maxVal + 1), err |-> "nil"]
    ELSE IF Head(s) < 48 \/ Head(s) > 57 THEN [n |-> 0, err |-> "syntax"]
    ELSE parseUintWide(Tail(s), (n * 10 + (Head(s) - 48)) % (maxVal + 1))

RECURSIVE parseUintLoop(_, _)
\* The digit loop of strconv.ParseUint(s, 10, 16) with n read so far: a byte
\* that is no digit is a syntax error, a value above maxVal a range error.
\* (n is at most maxVal at the head of the loop, far below the cutoff of the
\* 64-bit product.)
parseUintLoop(s, n) ==
    IF s = <<>> THEN [n |-> n, err |-> "nil"]
    ELSE IF Head(s) < 48 \/ Head(s) > 57 THEN [n |-> 0, err |-> "syntax"]
    ELSE LET n1 == n * 10 + (Head(s) - 48)
         IN IF n1 > maxVal THEN [n |-> maxVal, err |-> "range"]
            ELSE parseUintLoop(Tail(s), n1)

\* strconv.ParseUint(s, 10, 16).
ParseUint(s) ==
    IF s = <<>> THEN [n |-> 0, err |-> "syntax"] ELSE parseUintLoop(s, 0)

\* parseBook for its Year: the year and whether the warning was logged.
parseBookYear(issued) ==
    LET trimmed == stringsTrimSpace(issued)
    IN IF trimmed = <<>> THEN [year |-> 0, warned |-> FALSE]
       ELSE LET y == ParseUint(trimmed)
            IN IF y.err = "nil" THEN [year |-> y.n, warned |-> FALSE]
               ELSE [year |-> 0, warned |-> TRUE]

\* The code points of issued texts: the digits 0, 3, 5, 6, the space, the
\* signs and the tab.
IssuedRunes == {48, 51, 53, 54, 32, 43, 45, 9}

MaxIssued == 5

RECURSIVE IssuedOf(_)
IssuedOf(n) ==
    IF n = 0 THEN {<<>>}
    ELSE IssuedOf(n - 1) \cup {Append(s, r) : s \in IssuedOf(n - 1), r \in IssuedRunes}

InitYear ==
    /\ InitWith("off") /\ StoreAtRest
    /\ \E issued \in IssuedOf(MaxIssued) :
         unit = [fn |-> "year", issued |-> issued, done |-> FALSE]

\* parseBook(entry, feedUrl, l), for its Year.
ParseYear ==
    /\ unit.fn = "year" /\ ~unit.done
    /\ unit' = [fn |-> unit.fn, issued |-> unit.issued, done |-> TRUE,
                out |-> parseBookYear(unit.issued)]
    /\ UNCHANGED atRest

NextYear == ParseYear

\* The issued text of an entry, and one call of parseBook.
SpecYear == InitYear /\ [][NextYear]_vars

(* ------------------------------ the resume loop ------------------------ *)

\* The loop of resume() on its own: Resume is taken by what it does to the
\* fail table and by what it returns, and no step is recorded in the trace,
\* so that a run without end is a cycle of states.

MaxRows == 3
MaxT == 4

\* The descriptors of the rows: an authors index and the books feed of an
\* author below it.
LoopIndex == MakeResumableAuthors(U(<<"opds", "authorsindex", "A">>, ""))
LoopBooks == MakeResumableBooks(U(<<"opds", "authorbooks", "2">>, ""), Nil)

\* The rows two earlier runs (start times 1 and 2) can have left.
EarlierRows ==
    {[id |-> 1, start_time |-> 1, feed |-> pgxFeed(LoopIndex), error |-> "fetch"],
     [id |-> 2, start_time |-> 1, feed |-> pgxFeed(LoopBooks), error |-> "fetch"],
     [id |-> 3, start_time |-> 2, feed |-> pgxFeed(LoopIndex), error |-> "fetch"]}

\* The id the serial gives a new row: one that no row has and that the loop
\* does not hold.  The serial never gives an id twice; ids are taken up to
\* renaming here, the least free one standing for the next of the serial.
FreshId ==
    LET held == {r.id : r \in fails} \cup {Top.batch[j].id : j \in 1..Len(Top.batch)}
    IN Min({n \in 1..(2 * MaxRows + 1) : n \notin held})

\* pgxRepo.Save as StoringHandler.Handle calls it: the start time of the run.
HandleRow(feed) ==
    fails \cup {[id |-> FreshId, start_time |-> run.startTime,
                 feed |-> pgxFeed(feed), error |-> "fetch"]}

\* resume() returns err to main, which exits with 1, or nil, and main exits
\* with 0.
LoopEnds(code) ==
    /\ status' = "done" /\ exitCode' = code
    /\ stack' = <<>>

InitLoop ==
    /\ mode = "loop"
    /\ \E T \in 0..MaxT : run = ResumeRun(3, T)
    /\ stack = <<FirstFrame(ResumeRun(3, 0))>>
    /\ ret = NoRet
    /\ trace = <<>>
    /\ authorTable = {} /\ bookTable = {} /\ seriesTable = {}
    /\ \E rows \in SUBSET EarlierRows : fails = rows
    /\ failSeq = MaxRows
    /\ status = "running" /\ exitCode = 0
    /\ faults = 0
    /\ ref = {} /\ res = {}
    /\ StoreAtRest /\ unit = NoUnit

loopRest == <<ret, trace, authorTable, bookTable, seriesTable, failSeq, run, faults, mode,
              ref, res, db, cons, hist, unit>>

\* resume(), the head of the outer loop: GetFails fails, returns no row, or
\* returns a batch.
LoopGetFails ==
    /\ mode = "loop" /\ status = "running" /\ Top.pc = "getFails"
    /\ \E ok \in {TRUE, FALSE}, b \in Batches(run.T, FailsLimit) :
         IF ~ok THEN LoopEnds(1)
         ELSE IF Len(b) = 0 THEN LoopEnds(0)
         ELSE /\ stack' = <<[Top EXCEPT !.batch = b, !.i = 1, !.pc = "loop"]>>
              /\ UNCHANGED <<status, exitCode>>
    /\ UNCHANGED <<fails, loopRest>>

\* resume(), the inner loop: Resume(f.Feed, c, h) for the next row of the
\* batch.  The subtree is walked ("nil"), fails again at its root and the
\* Handler records the descriptor ("handled"), has a subtree below failing
\* that the Handler records ("below"), or ends with an unresumable error.
LoopResume ==
    /\ mode = "loop" /\ status = "running" /\ Top.pc = "loop"
    /\ IF Top.i > Len(Top.batch)
       THEN /\ stack' = <<[Top EXCEPT !.pc = "getFails"]>>
            /\ UNCHANGED <<fails, status, exitCode>>
       ELSE LET feed == FeedOfRow(Top.batch[Top.i])
            IN \E out \in {"nil", "handled", "error"}
                          \cup (IF feed.type = FeedTypeAuthors THEN {"below"} ELSE {}) :
                 IF out = "error" THEN LoopEnds(1) /\ UNCHANGED fails
                 ELSE /\ fails' = CASE out = "nil" -> fails
                                    [] out = "handled" -> HandleRow(feed)
                                    [] out = "below" -> HandleRow(LoopBooks)
                      /\ stack' = <<[Top EXCEPT !.pc = "afterResume"]>>
                      /\ UNCHANGED <<status, exitCode>>
    /\ UNCHANGED loopRest

\* resume() after Resume returned nil: DeleteById of the row.
LoopDelete ==
    /\ mode = "loop" /\ status = "running" /\ Top.pc = "afterResume"
    /\ \E ok \in {TRUE, FALSE} :
         IF ~ok THEN LoopEnds(1) /\ UNCHANGED fails
         ELSE /\ fails' = DeleteById(Top.batch[Top.i].id)
              /\ stack' = <<[Top EXCEPT !.i = Top.i + 1, !.pc = "loop"]>>
              /\ UNCHANGED <<status, exitCode>>
    /\ UNCHANGED loopRest

NextLoop ==
    \/ LoopGetFails
    \/ LoopResume
    \/ LoopDelete

\* A resume run over the rows of earlier runs, with any threshold.
SpecLoop == InitLoop /\ [][NextLoop]_vars

\* The process is one sequential program whose requests are answered: it
\* takes its next step as long as it has one.
SpecLoopFair == SpecLoop /\ WF_vars(NextLoop)

(* --------------------- a store filled by an earlier crawl --------------- *)

\* The series the site lists without books.
VoidSeries == <<"tag", "sequence", "7">>

\* The crawler starts on a store that is empty or holds the series an
\* earlier crawl stored when the site still listed books for it.
InitEarlier ==
    /\ mode = "free"
    /\ run = CrawlRun(1)
    /\ stack = <<FirstFrame(CrawlRun(1))>>
    /\ ret = NoRet
    /\ trace = <<[Event("boot") EXCEPT !.by = "crawl", !.n = 1]>>
    /\ authorTable = {} /\ bookTable = {}
    /\ seriesTable \in SUBSET {VoidSeries}
    /\ fails = {} /\ failSeq = 0
    /\ status = "running" /\ exitCode = 0
    /\ faults = 0
    /\ ref = {} /\ res = {}
    /\ StoreAtRest /\ unit = NoUnit

SpecEarlier == InitEarlier /\ [][Next]_vars

(* ----------------------- the year, parsed and stored -------------------- *)

\* Issued texts around the bounds of smallint and of uint16: "1985", "32767",
\* "32768", "40000", "65535", "65536", " 32768 ", "" and "x".
IssuedTexts ==
    {<<49, 57, 56, 53>>, <<51, 50, 55, 54, 55>>, <<51, 50, 55, 54, 56>>,
     <<52, 48, 48, 48, 48>>, <<54, 53, 53, 51, 53>>, <<54, 53, 53, 51, 54>>,
     <<32, 51, 50, 55, 54, 56, 32>>, <<>>, <<120>>}

InitIssued ==
    /\ InitWith("off")
    /\ db = EmptyDb
    /\ cons = <<IdleConsumer>>
    /\ hist = History("issued")
    /\ \E issued \in IssuedTexts :
         unit = [fn |-> "year", issued |-> issued, done |-> FALSE]

\* The book parseBook made of the entry with the issued text: its year is
\* the one parsed.
Issued(book) == [book EXCEPT !.year = unit.out.year]

\* The books feed hands ConsumeBooks a batch with the book whose year was
\* parsed, on a healthy store.
IssuedCall ==
    /\ hist.mode = "issued" /\ AllIdle
    /\ unit.fn = "year" /\ unit.done
    /\ Len(hist.calls) < MaxBatches
    /\ \E bks \in {<<Issued(K1)>>, <<Issued(K1), K3>>, <<K3, Issued(K1)>>, <<K1>>} :
         /\ cons' = [cons EXCEPT ![1] = Enter(Call("ConsumeBooks", Nil, Nil, bks), db)]
         /\ hist' = [hist EXCEPT !.calls = Append(@, Call("ConsumeBooks", Nil, Nil, bks))]
    /\ UNCHANGED <<db, crawler>>

NextIssued ==
    \/ ParseYear
    \/ IssuedCall
    \/ Return
    \/ BooksAuthorsGet
    \/ Hydrate
    \/ GenresLookup
    \/ GenresInsert
    \/ BooksGet
    \/ BooksSaveStep
    \/ LinkAuthorsDelete
    \/ LinkAuthorsInsert
    \/ LinkGenresDelete
    \/ LinkGenresInsert

\* An issued text is parsed, and batches with the book of that year are
\* handed to ConsumeBooks, one after another, on a store that never fails.
\* The second lookup of Genres.Insert is never reached with these batches.
SpecIssued == InitIssued /\ [][NextIssued]_vars

(* ============================== properties ============================= *)

Events == 1..Len(trace)

\* The run (1, 2, ...) in which event k happened.
RunAt(k) == Cardinality({j \in 1..k : trace[j].ev = "boot"})

\* A subtree call failing with a recoverable error: a failed fetch of its
\* feed, or a next link that does not parse.
IsFailure(e) == e.ev \in {"fetch", "badNext"} /\ ~e.ok /\ e.by # "fetchAuthor"

(* ---------------------------------- C1 --------------------------------- *)

\* The failure at k is followed at once by its one Handle call, which carries
\* the descriptor of the failing subtree, and no Handle call comes without one.
C1Handled ==
    /\ \A k \in Events :
         IsFailure(trace[k]) /\ k < Len(trace) =>
            /\ trace[k + 1].ev = "Handle"
            /\ trace[k + 1].err = trace[k].err
            /\ trace[k + 1].feed = trace[k].feed
            /\ \A j \in Events :
                 trace[j].ev = "Handle" /\ trace[j].err = trace[k].err => j = k + 1
    /\ \A j \in Events :
         trace[j].ev = "Handle" => j > 1 /\ IsFailure(trace[j - 1])

\* The step in which the Handler accepts a failure: the parent goes on with
\* its next entry; Crawl goes on with the series; after a failed next page or
\* books feed the caller returns nil, so that its own parent goes on.
C1GoesOn ==
    (/\ Len(trace') > Len(trace)
     /\ trace'[Len(trace) + 1].ev = "Handle"
     /\ trace'[Len(trace) + 1].ok)
    => IF Top.pc \in {"afterNested", "afterAuthor", "afterSequence"}
       THEN /\ Len(stack') = Len(stack) /\ ~ret'.set
            /\ stack'[Len(stack)].pc = "entries"
            /\ stack'[Len(stack)].i = Top.i + 1
       ELSE IF Top.pc = "afterAuthors"
       THEN Len(stack') = Len(stack) + 1 /\ stack'[Len(stack')].fn = "series.crawl"
       ELSE ret'.set /\ ret'.err = NilErr

\* C1: a subtree call that fails with a recoverable error gets exactly one
\* Handle call, with the descriptor of that subtree (URL, type, author or
\* series) and none for an ancestor, and once the Handler has accepted it
\* the Engine goes on with the remaining entries of the parent feed.
C1_RecoverableHandledOnce == [] C1Handled /\ [][C1GoesOn]_vars

\* The nested authors index A fails, the Handler accepts, and the author
\* entry after it in the parent feed is fetched in the same run.
C1_Witness ==
    \E k \in Events : \E j \in Events :
        /\ k + 1 < j
        /\ IsFailure(trace[k]) /\ trace[k].by = "authors.crawl"
        /\ trace[k].url = U(<<"opds", "authorsindex", "A">>, "")
        /\ trace[k + 1].ev = "Handle" /\ trace[k + 1].ok
        /\ trace[k + 1].feed = MakeResumableAuthors(U(<<"opds", "authorsindex", "A">>, ""))
        /\ trace[j].ev = "fetch" /\ trace[j].by = "author"
        /\ trace[j].url = U(<<"opds", "author", "1">>, "")
        /\ RunAt(j) = RunAt(k)

(* ---------------------------------- C2 --------------------------------- *)

\* Handle calls the Handler accepted so far: each wrote one fail row.
Accepted == {j \in Events : trace[j].ev = "Handle" /\ trace[j].ok}

\* C2: an error the Consumer returns (from ConsumeAuthor, ConsumeBooks or
\* ConsumeSeries) never reaches the Handler and writes no fail row, and
\* Crawl (or Resume) returns a non-nil error, so that the run exits 1.
C2_ConsumerErrorFatal ==
    /\ failSeq = Cardinality(Accepted)
    /\ \A r \in fails : r.error \notin {"consumer", "handler"}
    /\ \A k \in Events :
         trace[k].ev = "consumerError" =>
            \A j \in Events :
               /\ trace[j].ev = "Handle" =>
                    trace[j].err # trace[k].err /\ ~(j > k /\ RunAt(j) = RunAt(k))
               /\ (j > k /\ RunAt(j) = RunAt(k) /\ trace[j].ev = "returned") =>
                    trace[j].err # NilErr
               /\ (j > k /\ RunAt(j) = RunAt(k) /\ trace[j].ev = "exit") =>
                    trace[j].n = 1

\* ConsumeBooks fails in the fresh crawl, no fail row exists, the run exited 1.
C2_Witness ==
    \E k \in Events :
        /\ k > 2
        /\ trace[k].ev = "consumerError"
        /\ trace[k - 1].ev = "ConsumeBooks" /\ ~trace[k - 1].ok
        /\ RunAt(k) = 1
        /\ fails = {}
        /\ status = "done" /\ exitCode = 1 /\ run.no = 1

(* ---------------------------------- C3 --------------------------------- *)

\* The unresumable error that arose at event k, if one did.
UnresumableAt(k) ==
    IF trace[k].ev = "consumerError" THEN trace[k].err
    ELSE IF trace[k].ev = "Handle" /\ ~trace[k].ok THEN Err("handler", k)
    ELSE NilErr

\* After the first unresumable error of a run nothing is fetched, consumed or
\* handled any more in that run, and Crawl / Resume return that very error.
C3Aborts ==
    \A k \in Events :
        UnresumableAt(k) # NilErr =>
            \A j \in Events :
                (j > k /\ RunAt(j) = RunAt(k)) =>
                    /\ trace[j].ev \in {"returned", "exit"}
                    /\ trace[j].err = UnresumableAt(k)

\* Every level hands an unresumable error to its caller as it got it.
C3Propagates ==
    (ret.set /\ Unresumable(ret.err) /\ stack # <<>>) =>
        /\ ret'.set /\ ret'.err = ret.err
        /\ Len(stack') = Len(stack) - 1

\* C3: a run aborts on the first unresumable error (a ConsumerError, or an
\* error of Handler.Handle): the error reaches the caller of Crawl / Resume
\* unchanged through every level, and no fetch, Consumer call or Handler call
\* follows it; Crawl does not start the series crawl after it.
C3_AbortOnFirstUnresumable == [] C3Aborts /\ [][C3Propagates]_vars

\* The Handler fails on an author's failed description fetch, two levels
\* below Crawl; Crawl has returned that error and never fetched the series.
C3_Witness ==
    \E k \in Events :
        /\ trace[k].ev = "Handle" /\ ~trace[k].ok
        /\ trace[k].feed.type = FeedTypeAuthor
        /\ trace[Len(trace)].ev = "exit"
        /\ trace[Len(trace) - 1].ev = "returned" /\ trace[Len(trace) - 1].by = "Crawl"
        /\ trace[Len(trace) - 1].err = Err("handler", k)
        /\ \A j \in Events : trace[j].url # SeriesRoot

(* ---------------------------------- C4 --------------------------------- *)

\* C4: every failed fetch of a feed is recoverable, whichever step makes it
\* (the author description fetched on the Consumer's request included): the
\* failure goes to the Handler, and when the Handler accepts it the run does
\* not abort on it (a run that exits 1 had an unresumable error later).
C4_EveryFetchFailureRecoverable ==
    \A k \in Events :
        (trace[k].ev = "fetch" /\ ~trace[k].ok /\ k < Len(trace)) =>
            /\ trace[k + 1].ev = "Handle"
            /\ trace[k + 1].ok =>
                 \A j \in Events :
                    (j > k /\ RunAt(j) = RunAt(k) /\ trace[j].ev = "exit" /\ trace[j].n = 1) =>
                        \E u \in (k + 2)..j : UnresumableAt(u) # NilErr

\* The description of author 9, wanted by ConsumeBooks for the first books
\* page of author 1, cannot be fetched: the failure comes back as a
\* ConsumerError, the Handler is never called, no fail row exists, exit 1.
C4_Witness ==
    \E k \in Events :
        /\ k < Len(trace)
        /\ trace[k].ev = "fetch" /\ ~trace[k].ok /\ trace[k].by = "fetchAuthor"
        /\ trace[k].url = U(<<"opds", "author", "9">>, "")
        /\ trace[k - 1].ev = "ConsumeBooks"
        /\ trace[k - 1].url = U(<<"opds", "authorbooks", "1">>, "")
        /\ trace[k + 1].ev = "consumerError"
        /\ \A j \in Events : trace[j].ev # "Handle"
        /\ fails = {}
        /\ status = "done" /\ exitCode = 1 /\ run.no = 1

(* ---------------------------------- C5 --------------------------------- *)

AuthorId(n) == <<"tag", "author", n>>
BookId(n) == <<"tag", "book", n>>
SequenceId(n) == <<"tag", "sequence", n>>

Entities(a, b, s) ==
    [authors |-> {AuthorId(n) : n \in a}, books |-> {BookId(n) : n \in b},
     series |-> {SequenceId(n) : n \in s}]

\* The entities of the site below each feed, read off Upstream: the authors
\* and series a feed (or a feed below it) lists with a usable link, and the
\* books of their pages.
Below(feed) ==
    LET p == feed.url.path
        q == feed.url.query
    IN CASE p = <<"opds", "authorsindex">> /\ q = "" -> Entities({"1", "2"}, {"1", "2", "3"}, {})
         [] p = <<"opds", "authorsindex", "A">> -> Entities({"2"}, {"3"}, {})
         [] p = <<"opds", "author", "1">> -> Entities({"1"}, {"1", "2"}, {})
         [] p = <<"opds", "author", "2">> -> Entities({"2"}, {"3"}, {})
         [] p = <<"opds", "authorbooks", "1">> /\ q = "" -> Entities({"1"}, {"1", "2"}, {})
         [] p = <<"opds", "authorbooks", "1">> /\ q = "page=2" -> Entities({"1"}, {"2"}, {})
         [] p = <<"opds", "authorbooks", "2">> -> Entities({"2"}, {"3"}, {})
         [] p = <<"opds", "sequencesindex">> /\ q = "" -> Entities({}, {"1", "3", "4"}, {"1", "2"})
         [] p = <<"opds", "sequencesindex", "S">> -> Entities({}, {"3"}, {"2"})
         [] p = <<"opds", "sequencebooks", "1">> -> Entities({}, {"1", "4"}, {"1"})
         [] p = <<"opds", "sequencebooks", "2">> -> Entities({}, {"3"}, {"2"})
         [] OTHER -> Entities({}, {}, {})

Stored(feed) ==
    /\ Below(feed).authors \subseteq authorTable
    /\ Below(feed).books \subseteq bookTable
    /\ Below(feed).series \subseteq seriesTable

\* Nothing failed in run n: no fetch, no store call, no Handler call.
Healthy(n) ==
    \A k \in Events : RunAt(k) = n => trace[k].ok /\ trace[k].ev # "consumerError"

\* The id of the fail row the accepted Handle call at j wrote.
RowId(j) == Cardinality({i \in Accepted : i <= j})

\* Whether the row of the accepted Handle call at j was in the fail table
\* when run n booted: written before, and not deleted by an earlier run.
PresentAtBoot(j, n) ==
    /\ RunAt(j) < n
    /\ \A k \in Events :
         (trace[k].ev = "DeleteById" /\ trace[k].ok /\ trace[k].n = RowId(j)) => RunAt(k) >= n

LastResume(k) == CHOOSE j \in 1..k : trace[j].ev = "Resume" /\
                    \A i \in (j + 1)..k : trace[i].ev # "Resume"

\* The event at k is the nil return of the Resume call for row id.
ResumedWell(k, id) ==
    /\ k > 1
    /\ trace[k].ev = "returned" /\ trace[k].by = "Resume" /\ trace[k].err = NilErr
    /\ \E j \in 1..k : trace[j].ev = "Resume"
    /\ trace[LastResume(k)].n = id
    /\ trace[LastResume(k)].feed = trace[k].feed
    /\ RunAt(LastResume(k)) = RunAt(k)

SameSubtree(d, e) == d.url = e.url /\ d.type = e.type

IsResolverFetch(e) == e.ev = "fetch" /\ e.by = "fetchAuthor"
IsTraversal(e) == ~IsResolverFetch(e)

\* The fetches the Engine makes on its own walk and the Consumer calls.
Traversal(work) == SelectSeq(work, IsTraversal)

\* C7, as stated: Resume(D) makes the same feed fetches and the same Consumer
\* calls as the subtree call that produced D makes against the same upstream.
C7_SameWorkAsStated ==
    \A r \in res : \A q \in ref : SameSubtree(r[1], q[1]) => r[2] = q[2]

\* C7, amended: Resume(D) makes the same fetches of the walk (index, author
\* description, books, series and next pages) and the same Consumer calls,
\* with the same entities in the same order, as the subtree call that
\* produced D; the author descriptions fetched on the Consumer's request are
\* left out, for they depend on what the store holds at the time.
C7_SameTraversal ==
    \A r \in res : \A q \in ref :
        SameSubtree(r[1], q[1]) => Traversal(r[2]) = Traversal(q[2])

\* The replay of an Author descriptor and the author call of the later crawl
\* both fetched the description and the books pages and made the Consumer calls.
C7_Witness ==
    \E r \in res : \E q \in ref :
        /\ SameSubtree(r[1], q[1])
        /\ r[1].type = FeedTypeAuthor
        /\ r[1].url = U(<<"opds", "author", "1">>, "")
        /\ Len(Traversal(r[2])) >= 6
        /\ \E k \in 1..Len(r[2]) : r[2][k].ev = "ConsumeAuthor"
        /\ \E k \in 1..Len(r[2]) :
             r[2][k].ev = "ConsumeBooks" /\ BookId("2") \in BatchIds(r[2][k].books)

(* ---------------------------------- C8 --------------------------------- *)

WellFormed(feed) ==
    /\ KnownType(feed.type)
    /\ (feed.author # Nil) <=> (feed.type \in {FeedTypeAuthor, FeedTypeBooks})
    /\ (feed.series # Nil) <=> (feed.type = FeedTypeSeries)

\* C8: every descriptor the Engine passes to the Handler, in a fresh crawl
\* and in a resume run, has one of the five types, an author exactly when
\* the type is Author or Books, and a series exactly when it is Series.
C8_DescriptorsWellFormed ==
    \A k \in Events : trace[k].ev = "Handle" => WellFormed(trace[k].feed)

\* A books page failed in the crawl and again in the resume run: the Handler
\* got a Books descriptor with its author both times, the second time the
\* one read back from the fail table.
C8_Witness ==
    \E k \in Events : \E j \in Events :
        /\ trace[k].ev = "Handle" /\ RunAt(k) = 1
        /\ trace[k].feed.type = FeedTypeBooks /\ trace[k].feed.author # Nil
        /\ trace[j].ev = "Handle" /\ RunAt(j) = 2
        /\ trace[j].feed = trace[k].feed

(* ---------------------------------- C9 --------------------------------- *)

\* "crawl" or "resume": what run n is.
RunKind(n) == trace[CHOOSE j \in Events : trace[j].ev = "boot" /\ trace[j].n = n].by

\* C9: a fresh crawl exits 0 exactly when no ConsumerError and no
\* HandlerError occurred in it, however many recoverable failures the
\* Handler accepted; and when a next books page fails in the crawl, the
\* ConsumeBooks call of the page before it has been made.
C9_ExitZeroIffNoUnresumable ==
    /\ \A k \in Events :
         (trace[k].ev = "exit" /\ RunKind(RunAt(k)) = "crawl") =>
            /\ trace[k - 1].ev = "returned" /\ trace[k - 1].by = "Crawl"
            /\ (trace[k].n = 0) <=> (trace[k - 1].err = NilErr)
            /\ (trace[k].n = 0) <=>
                 (\A u \in 1..k : RunAt(u) = RunAt(k) => UnresumableAt(u) = NilErr)
    /\ \A k \in Events :
         (/\ IsFailure(trace[k]) /\ trace[k].by = "books.crawl" /\ trace[k].url.query # ""
          /\ RunKind(RunAt(k)) = "crawl") =>
            \E j \in 1..k :
               /\ RunAt(j) = RunAt(k)
               /\ trace[j].ev = "ConsumeBooks" /\ trace[j].ok
               /\ trace[j].url = U(trace[k].url.path, "")

\* The root authors feed and the second page of the series index both
\* failed and the Handler accepted both: the crawl exited 0 with two fail
\* rows, and the series of the first page were emitted.
C9_Witness ==
    /\ status = "done" /\ run.no = 1 /\ exitCode = 0
    /\ Cardinality(fails) = 2
    /\ \E k \in Accepted : trace[k].feed = MakeResumableAuthors(AuthorsRoot)
    /\ \E k \in Accepted :
         trace[k].feed = MakeResumableSequences(U(<<"opds", "sequencesindex">>, "page=2"))
    /\ {SequenceId("1"), SequenceId("2")} \subseteq seriesTable
    /\ \E k \in Events : trace[k].ev = "ConsumeSeries" /\ trace[k].ok

(* ---------------------------------- C10 -------------------------------- *)

AuthorOf(e) == Deref(e.author).id

ConsumedAuthorBefore(k, sameRun) ==
    \E j \in 1..k :
        /\ trace[j].ev = "ConsumeAuthor" /\ trace[j].ok
        /\ AuthorOf(trace[j]) = AuthorOf(trace[k])
        /\ sameRun => RunAt(j) = RunAt(k)

\* C10, as stated: in one run, fresh crawl or resume run, every ConsumeBooks
\* call for an author's books feed comes after a ConsumeAuthor call for that
\* author in the same run.
C10_AuthorBeforeBooksSameRun ==
    \A k \in Events : trace[k].ev = "ConsumeBooks" => ConsumedAuthorBefore(k, TRUE)

\* Whether the ConsumeBooks call at k is part of the replay of a Books descriptor.
InBooksReplay(k) ==
    /\ RunKind(RunAt(k)) = "resume"
    /\ trace[LastResume(k)].feed.type = FeedTypeBooks

\* C10, amended: every ConsumeBooks call for an author's books feed comes
\* after a successful ConsumeAuthor call for that author; the two are in the
\* same run in a fresh crawl and in the replay of an Author or AuthorsIndex
\* descriptor, while the replay of a Books descriptor relies on the
\* ConsumeAuthor call of the earlier run that recorded the descriptor.
C10_AuthorBeforeBooks ==
    \A k \in Events :
        trace[k].ev = "ConsumeBooks" =>
            /\ ConsumedAuthorBefore(k, FALSE)
            /\ ~InBooksReplay(k) => ConsumedAuthorBefore(k, TRUE)

\* The first books page of author 1 failed in the crawl after ConsumeAuthor;
\* the resume run replayed the Books descriptor, and its ConsumeBooks call
\* has no ConsumeAuthor call of that run before it.
C10_Witness ==
    \E k \in Events :
        /\ trace[k].ev = "ConsumeBooks" /\ trace[k].ok
        /\ RunAt(k) = 2 /\ InBooksReplay(k)
        /\ AuthorOf(trace[k]) = AuthorId("1")
        /\ ConsumedAuthorBefore(k, FALSE)
        /\ ~ConsumedAuthorBefore(k, TRUE)

(* ---------------------------------- C11 -------------------------------- *)

\* The sequence of calls has been applied a second time, to the end.
AppliedTwice ==
    /\ hist.mode = "calls" /\ hist.pass = 2
    /\ hist.k > Len(hist.calls) /\ AllIdle

\* C11: the storing Consumer is idempotent.  Whatever the store holds (the
\* empty store, or what earlier calls left, calls that a failed write cut
\* short among them), when a sequence of ConsumeAuthor, ConsumeBooks and
\* ConsumeSeries calls has been applied and is applied a second time with the
\* same entities, the tables book, author, series, genre, book_author,
\* book_genre and book_series hold what they held after the first application.
C11_ConsumerIdempotent == AppliedTwice => Tables(db) = hist.snap

\* A book batch with a hydrated author and a series were applied twice, and
\* all seven tables hold rows.
C11_Witness ==
    /\ AppliedTwice /\ hist.from = 1
    /\ Len(hist.calls) = 2
    /\ hist.calls[1].fn = "ConsumeBooks" /\ hist.calls[2].fn = "ConsumeSeries"
    /\ \A t \in {"book", "author", "series", "genre", "book_author", "book_genre",
                  "book_series"} : Tables(db)[t] # {}
    /\ Tables(db) = hist.snap

(* ---------------------------------- C12 -------------------------------- *)

\* The entities a call carries, the authors its books name as the upstream
\* has them.
RecordsOf(call) ==
    Range(call.author) \cup Range(call.series) \cup Range(call.books)
    \cup {fetchAuthor(id) : id \in BatchAuthors(call.books)}

\* The calls of a crawl of an upstream that does not change: an id comes with
\* the same record in every call.
Unchanging(calls) ==
    \A x, y \in UNION {RecordsOf(calls[j]) : j \in 1..Len(calls)} : x.id = y.id => x = y

\* The second run of a crawl against an unchanged upstream: the whole sequence
\* of calls is applied again, no store write has failed and no call has
\* returned an error.
SecondRun ==
    /\ hist.mode = "calls" /\ hist.pass = 2 /\ hist.from = 1
    /\ hist.faults = 0 /\ hist.errs = 0
    /\ Unchanging(hist.calls)

\* C12, as stated: the second run of the crawl against an unchanged upstream
\* writes nothing: no Save on authors, books or series, and no rewrite of
\* book_author, book_genre or book_series rows.
C12_NoWritesOnSecondRun ==
    SecondRun =>
        hist.writes \cap {"author", "book", "series", "book_author", "book_genre",
                          "book_series"} = {}

\* The ConsumeSeries calls of the sequence.
SeriesCalls == {j \in 1..Len(hist.calls) : hist.calls[j].fn = "ConsumeSeries"}

\* C12, amended: the second run of the crawl against an unchanged upstream
\* makes no Save on authors, books or series and no rewrite of book_author or
\* book_genre rows; the book_series rows of a series are deleted and inserted
\* again by every ConsumeSeries call, with the same contents.
C12_NoWritesButSeriesLinks ==
    /\ SecondRun => hist.writes \subseteq {"book_series"}
    /\ (SecondRun /\ AppliedTwice /\ SeriesCalls # {}) =>
            /\ "book_series" \in hist.writes
            /\ db.book_series = hist.snap.book_series

\* A second run with a ConsumeAuthor and a ConsumeSeries call has ended: the
\* only table written is book_series.
C12_Witness ==
    /\ SecondRun /\ AppliedTwice
    /\ Len(hist.calls) = 2
    /\ hist.calls[1].fn = "ConsumeAuthor" /\ hist.calls[2].fn = "ConsumeSeries"
    /\ Len(hist.calls[2].books) = 2
    /\ hist.writes = {"book_series"}

(* ---------------------------------- C13 -------------------------------- *)

\* The ConsumeBooks call of the consumer in frame f has returned nil: to its
\* caller, or to the ConsumeSeries call that made it.
BooksCompleted(f) ==
    \/ f.fn = "ConsumeBooks" /\ f.pc = "return" /\ f.err = "nil"
    \/ f.fn = "ConsumeSeries" /\ f.pc = "LinkSeriesWithBooks.Delete"

AuthorLinks(id) == {r \in db.book_author : r.book_id = id}

\* The author_order values of the book are 1..n, each once.
DenseAuthorOrder(id) ==
    /\ {r.author_order : r \in AuthorLinks(id)} = 1..Cardinality(AuthorLinks(id))
    /\ \A r, q \in AuthorLinks(id) : r.author_order = q.author_order => r = q

\* C13: author ordering density.  For every book the author_order values of
\* its book_author rows are exactly 1..n, without gaps or duplicates, and
\* after a completed ConsumeBooks call the row with author_order i of each
\* book of the call holds the i-th author id of the book's input sequence.
C13_AuthorOrderDense ==
    /\ \A id \in Ids(db.book) \cup {r.book_id : r \in db.book_author} : DenseAuthorOrder(id)
    /\ \A c \in Consumers :
         BooksCompleted(cons[c]) =>
            \A j \in 1..Len(cons[c].books) :
                LET book == cons[c].books[j]
                IN /\ Cardinality(AuthorLinks(book.id)) = Len(book.authors)
                   /\ \A r \in AuthorLinks(book.id) :
                        /\ r.author_order \in 1..Len(book.authors)
                        /\ r.author_id = book.authors[r.author_order]

\* ConsumeBooks has returned nil for book b2 with the authors a1, a2, which
\* was stored with the one author a2 before the call.
C13_Witness ==
    \E c \in Consumers :
        /\ cons[c].fn = "ConsumeBooks" /\ BooksCompleted(cons[c])
        /\ cons[c].books = <<K4>>
        /\ {r \in cons[c].pre.book_author : r.book_id = "b2"}
               = {[book_id |-> "b2", author_id |-> "a2", author_order |-> 1]}
        /\ AuthorLinks("b2")
               = {[book_id |-> "b2", author_id |-> "a1", author_order |-> 1],
                  [book_id |-> "b2", author_id |-> "a2", author_order |-> 2]}

(* ---------------------------------- C14 -------------------------------- *)

\* Every book_author row refers to a stored book and a stored author, every
\* book_genre row to a stored book and a stored genre.
BookLinksIntact(d) ==
    /\ \A r \in d.book_author : r.book_id \in Ids(d.book) /\ r.author_id \in Ids(d.author)
    /\ \A r \in d.book_genre : r.book_id \in Ids(d.book) /\ r.genre_id \in Ids(d.genre)

\* The consumer in frame f is about to write link rows of a book: the book,
\* its authors and the genres its titles resolve to are stored.
StoredBeforeLinked(f) ==
    /\ f.pc \in {"LinkBookAndAuthors.Insert", "LinkBookAndGenres.Insert"} =>
            /\ f.save[f.i].id \in Ids(db.book)
            /\ Range(f.save[f.i].authors) \subseteq Ids(db.author)
    /\ f.pc = "LinkBookAndGenres.Insert" =>
            \A t \in Range(f.save[f.i].genres) :
                \E g \in db.genre : g.id = IdOfTitle(f.gs, t) /\ ToLower(g.title) = ToLower(t)

\* C14: referential integrity of the book links.  In every state reachable
\* through Consumer calls every book_author row refers to a book and an author
\* of the store and every book_genre row to a book and a genre of the store;
\* ConsumeBooks has stored the authors that were missing (hydrated through
\* fetchAuthor) and the genres that were missing before it writes a link row,
\* so that no insert of link rows fails on a foreign key.
C14_BookLinksReferStored ==
    /\ BookLinksIntact(db)
    /\ \A c \in Consumers :
         /\ StoredBeforeLinked(cons[c])
         /\ cons[c].fn \in {"ConsumeBooks", "ConsumeSeries"} =>
                /\ cons[c].err # "foreign key"
                /\ BooksCompleted(cons[c]) =>
                       \A j \in 1..Len(cons[c].books) :
                          /\ Range(cons[c].books[j].authors) \subseteq Ids(db.author)
                          /\ cons[c].books[j].id \in Ids(db.book)

\* ConsumeBooks, called on a store without authors and genres, is about to
\* insert the genre rows of a book with two authors and two genres: the
\* authors were hydrated, the genres inserted, the author rows written.
C14_Witness ==
    \E c \in Consumers :
        /\ cons[c].pc = "LinkBookAndGenres.Insert"
        /\ cons[c].pre.author = {} /\ cons[c].pre.genre = {}
        /\ cons[c].save[cons[c].i] = K4
        /\ Ids(db.author) = {"a1", "a2"}
        /\ Titles(db.genre) = {"Epic", "Fantasy"}
        /\ Cardinality(AuthorLinks("b2")) = 2

(* ---------------------------------- C15 -------------------------------- *)

SeriesLinks(id) == {r \in db.book_series : r.series_id = id}

\* C15: in ConsumeSeries the ConsumeBooks call comes before the series link
\* step.  When the book_series rows are written the series and every book of
\* the input are in the store; every book_series row refers to a stored book
\* and a stored series; the link step never fails on a missing book, and a
\* ConsumeSeries call that returns nil has linked every book of its input.
C15_BooksBeforeSeriesLinks ==
    /\ \A r \in db.book_series : r.book_id \in Ids(db.book) /\ r.series_id \in Ids(db.series)
    /\ \A c \in Consumers :
         LET f == cons[c]
         IN /\ f.pc \in {"LinkSeriesWithBooks.Delete", "LinkSeriesWithBooks.Insert"} =>
                /\ f.fn = "ConsumeSeries"
                /\ Deref(f.series).id \in Ids(db.series)
                /\ BatchIds(f.books) \subseteq Ids(db.book)
            /\ f.fn = "ConsumeSeries" =>
                /\ f.err # "foreign key"
                /\ (f.pc = "return" /\ f.err = "nil") =>
                       BatchIds(f.books) = {r.book_id : r \in SeriesLinks(Deref(f.series).id)}

\* ConsumeSeries, called for a series and two books that were not stored, is
\* about to insert the book_series rows: the series and both books are stored.
C15_Witness ==
    \E c \in Consumers :
        /\ cons[c].fn = "ConsumeSeries" /\ cons[c].pc = "LinkSeriesWithBooks.Insert"
        /\ cons[c].pre.book = {} /\ cons[c].pre.series = {}
        /\ Len(cons[c].books) = 2
        /\ Ids(db.book) = {"b1", "b2"} /\ Ids(db.series) = {"s1"}

(* ---------------------------------- C16 -------------------------------- *)

\* The ConsumeSeries call in frame f has returned nil.
SeriesCompleted(f) == f.fn = "ConsumeSeries" /\ f.pc = "return" /\ f.err = "nil"

\* C16: after a completed ConsumeSeries(series, books, fetchAuthor) the
\* book_series rows of the series are exactly the input: one row per input
\* book, book_order the 1-based place of the book in the input, no row left
\* from an earlier call for the series; the rows of other series are as they
\* were before the call.
C16_SeriesLinksAreInput ==
    \A c \in Consumers :
        SeriesCompleted(cons[c]) =>
            LET f == cons[c]
                id == Deref(f.series).id
            IN /\ Cardinality(SeriesLinks(id)) = Len(f.books)
               /\ \A j \in 1..Len(f.books) :
                    \E r \in SeriesLinks(id) : r.book_id = f.books[j].id /\ r.book_order = j
               /\ db.book_series \ SeriesLinks(id)
                     = {r \in f.pre.book_series : r.series_id # id}

\* ConsumeSeries has returned nil for series s1 with the one book b2; before
\* the call the series had the books b1 and b2.
C16_Witness ==
    \E c \in Consumers :
        /\ SeriesCompleted(cons[c])
        /\ cons[c].books = <<K4>>
        /\ {r.book_id : r \in cons[c].pre.book_series} = {"b1", "b2"}
        /\ db.book_series = {[book_id |-> "b2", series_id |-> "s1", book_order |-> 1]}

\* ConsumeSeries has returned nil for series s1 while series s2 has a book.
C16_OtherSeriesKept ==
    \E c \in Consumers :
        /\ SeriesCompleted(cons[c]) /\ Deref(cons[c].series).id = "s1"
        /\ SeriesLinks("s2") # {}

(* ---------------------------------- C17 -------------------------------- *)

\* C17: genre case-insensitive uniqueness.  In every state reachable through
\* ConsumeBooks calls no two genre rows have the same lower(title) (and no two
\* the same id).
C17_GenreTitlesUnique ==
    \A g, h \in db.genre :
        (ToLower(g.title) = ToLower(h.title) \/ g.id = h.id) => g = h

\* Genres.Insert was given the title "fantasy" while "Fantasy" was stored:
\* the insert drew an id of the serial and added no row.
C17_Witness ==
    \E c \in Consumers :
        /\ cons[c].pc = "Genres.Insert.GetIdByTitles"
        /\ cons[c].new = {"fantasy"}
        /\ db.genre = {[id |-> 1, title |-> "Fantasy"]}
        /\ db.genre_id_seq = 2

(* ---------------------------------- C18 -------------------------------- *)

\* The genre rows of the tables t whose title is title in another letter case.
CaseVariants(t, title) ==
    {g \in t.genre : ToLower(g.title) = ToLower(title) /\ g.title # title}

\* The books of the call with a genre title that differs only in letter case
\* from a genre stored when the call began.
CaseVariantBooks(f) ==
    {j \in 1..Len(f.books) :
        \E title \in Range(f.books[j].genres) : CaseVariants(f.pre, title) # {}}

\* C18: a ConsumeBooks call with a book whose genre title differs only in
\* letter case from a stored genre, no store write failing, succeeds, creates
\* no genre row for the title and links the book to the pre-existing genre id.
C18_CaseVariantLinked ==
    \A c \in Consumers :
        LET f == cons[c]
        IN (/\ f.fn = "ConsumeBooks" /\ f.pc = "return" /\ f.err # "store"
            /\ CaseVariantBooks(f) # {})
           => /\ f.err = "nil"
              /\ \A j \in CaseVariantBooks(f) :
                    \A title \in Range(f.books[j].genres) :
                        \A g \in CaseVariants(f.pre, title) :
                            /\ CaseVariants(Tables(db), title) = {g}
                            /\ [book_id |-> f.books[j].id, genre_id |-> g.id]
                                   \in db.book_genre

\* ConsumeBooks of K2 (genre "fantasy") on the store ConsumeBooks of K1 left
\* (genre "Fantasy") has returned its error: the book row and the author
\* links are those of K2, the genre links are as before.
C18_Witness ==
    \E c \in Consumers :
        LET f == cons[c]
        IN /\ f.fn = "ConsumeBooks" /\ f.pc = "return"
           /\ f.books = <<K2>>
           /\ f.err = "impossible lacdkmsgtr"
           /\ hist.faults = 0
           /\ db.genre = {[id |-> 1, title |-> "Fantasy"]}
           /\ db.book_genre = f.pre.book_genre
           /\ db.book_author # f.pre.book_author

(* ---------------------------------- C19 -------------------------------- *)

\* Both concurrent ConsumeBooks calls have returned.
BothReturned == \A c \in Consumers : cons[c].pc = "return"

\* The genre rows with the title.
GenresTitled(title) == {g \in db.genre : g.title = title}

\* C19: two consumers run ConsumeBooks at once with books that carry the same
\* genre title, not stored before.  In every interleaving of their statements
\* both calls return nil, there is exactly one genre row of that title, and
\* the books of both calls are linked to its id.
C19_GenreRaceResolved ==
    (hist.mode = "race" /\ BothReturned)
    => /\ \A c \in Consumers : cons[c].err = "nil"
       /\ Cardinality(GenresTitled("Fantasy")) = 1
       /\ \A c \in Consumers, g \in GenresTitled("Fantasy") :
             \A j \in 1..Len(cons[c].books) :
                [book_id |-> cons[c].books[j].id, genre_id |-> g.id] \in db.book_genre

\* Both calls have returned and the race took place: both had looked the title
\* up before either inserted it, so that one insert statement was skipped on
\* the conflict and used up an id of the serial.
C19_Witness ==
    /\ hist.mode = "race" /\ BothReturned
    /\ \A c \in Consumers : cons[c].err = "nil"
    /\ db.genre_id_seq > Cardinality(db.genre)

(* ---------------------------------- C20 -------------------------------- *)

\* The rows of the book in the three link tables of the tables t.
BookLinks(t, id) ==
    [book_author |-> {r \in t.book_author : r.book_id = id},
     book_genre |-> {r \in t.book_genre : r.book_id = id},
     book_series |-> {r \in t.book_series : r.book_id = id}]

\* A ConsumeBooks or ConsumeSeries call that a failed store write has ended.
FailedWrite(f) ==
    /\ f.fn \in {"ConsumeBooks", "ConsumeSeries"}
    /\ f.pc = "return" /\ f.err = "store"

\* C20: the fan-out to the link tables is transactional.  When a store write
\* of a ConsumeBooks or ConsumeSeries call has failed, the book_author,
\* book_genre and book_series rows of the book the link loop stood at are as
\* they were before the call, and so are the book_series rows of the books
\* of a ConsumeSeries call: no book is left with its old link rows deleted
\* and the new ones not inserted.
C20_LinkFanOutAtomic ==
    \A c \in Consumers :
        LET f == cons[c]
        IN FailedWrite(f)
           => /\ f.i >= 1 =>
                   BookLinks(Tables(db), f.save[f.i].id) = BookLinks(f.pre, f.save[f.i].id)
              /\ \A j \in 1..Len(f.books) :
                   BookLinks(Tables(db), f.books[j].id).book_series
                       = BookLinks(f.pre, f.books[j].id).book_series

\* The insert of LinkBookAndAuthors failed after its delete: the book had
\* author links before the call, has authors in the input, and has no
\* book_author row now.
C20_Witness ==
    \E c \in Consumers :
        LET f == cons[c]
        IN /\ FailedWrite(f) /\ f.i >= 1
           /\ f.save[f.i].authors # <<>>
           /\ BookLinks(f.pre, f.save[f.i].id).book_author # {}
           /\ BookLinks(Tables(db), f.save[f.i].id).book_author = {}
           /\ BookLinks(Tables(db), f.save[f.i].id).book_genre
                  = BookLinks(f.pre, f.save[f.i].id).book_genre

\* The insert of LinkSeriesWithBooks failed after its delete: the series had
\* books before the call and has none now.
C20_SeriesLinksLost ==
    \E c \in Consumers :
        LET f == cons[c]
        IN /\ FailedWrite(f) /\ f.fn = "ConsumeSeries"
           /\ \E r \in f.pre.book_series : r.series_id = Deref(f.series).id
           /\ ~ \E r \in db.book_series : r.series_id = Deref(f.series).id

(* ---------------------------------- C21 -------------------------------- *)

\* The author ids of the batch that were not stored when the call began.
AbsentAuthors(f) == BatchAuthors(f.books) \ {a.id : a \in f.pre.author}

\* The call is past its hydration loop.
Hydrated(f) ==
    \/ f.pc \notin {"Series.GetById", "Series.Save", "Authors.GetByIds", "fetchAuthor",
                    "return"}
    \/ f.pc = "return" /\ f.err = "nil"

\* C21: on-demand hydration.  ConsumeBooks (also when ConsumeSeries calls
\* it) calls fetchAuthor only with author ids of the batch that were absent
\* from the store, with no id twice, saves each author it got, and once the
\* loop is over it has called fetchAuthor with every absent id of the batch.
C21_HydrationOnDemand ==
    \A c \in Consumers :
        LET f == cons[c]
        IN f.fn \in {"ConsumeBooks", "ConsumeSeries"}
           => /\ Range(f.asked) \subseteq AbsentAuthors(f)
              /\ \A j, k \in 1..Len(f.asked) : f.asked[j] = f.asked[k] => j = k
              /\ \A id \in Range(f.asked) : AuthorsGetById(db, id) = Ref(fetchAuthor(id))
              /\ Hydrated(f) => Range(f.asked) = AbsentAuthors(f)

\* A batch of two books that both name a stored author, one of them an
\* absent author too, has been consumed: fetchAuthor was called once, for
\* the absent one.
C21_Witness ==
    \E c \in Consumers :
        LET f == cons[c]
        IN /\ f.fn = "ConsumeBooks" /\ f.pc = "return" /\ f.err = "nil"
           /\ Len(f.books) = 2
           /\ Len(f.asked) = 1
           /\ \E id \in BatchAuthors(f.books) \ Range(f.asked) :
                 \A j \in 1..2 : id \in Range(f.books[j].authors)

\* A batch of two books that both name an absent author has been consumed.
C21_SharedAbsentOnce ==
    \E c \in Consumers :
        LET f == cons[c]
        IN /\ f.fn = "ConsumeBooks" /\ f.pc = "return" /\ f.err = "nil"
           /\ Len(f.books) = 2
           /\ \E id \in Range(f.asked) : \A j \in 1..2 : id \in Range(f.books[j].authors)

(* ---------------------------------- C22 -------------------------------- *)

\* The entries of the author description that carry the bio.
BioEntries(page) == {k \in 1..Len(page.entries) : regTagBio(page.entries[k].id)}

\* The author has the bio and the avatar the description carries, or none.
FilledFrom(author, page, authorUrl) ==
    IF BioEntries(page) = {} THEN author.bio = "" /\ author.avatar = <<>>
    ELSE \E k \in BioEntries(page) :
            /\ author.bio = page.entries[k].content
            /\ \A l \in Range(page.entries[k].links) :
                  l.rel = linkRelImage
                  => author.avatar = UrlString(ResolveReference(authorUrl, l.href))

\* C22: the fetchAuthor callback never emits to the Consumer.  For the id of
\* the author whose books feed is crawled it returns that author and fetches
\* nothing; for another id tag:author:N it fetches /opds/author/N resolved
\* against the current feed, that one request and no Consumer call, and
\* returns an author with the id, bio and avatar as the description has
\* them; for any other id it returns an error and fetches nothing.
C22_ResolverNeverEmits ==
    (unit.fn = "resolve" /\ unit.done)
    => LET ar == unit.ar
           id == unit.id
           out == unit.out
           own == ar.author # Nil /\ id = Deref(ar.author).id
           authorUrl == U(<<"opds", "author", id[3]>>, "")
       IN /\ \A k \in 1..Len(out.events) : out.events[k].ev = "fetch"
          /\ own => out.author = ar.author /\ out.err = "nil" /\ out.events = <<>>
          /\ (~own /\ regTagAuthor(id))
                => /\ Len(out.events) = 1 /\ out.events[1].url = authorUrl
                   /\ unit.ok => /\ out.err = "nil"
                                 /\ Deref(out.author).id = id
                                 /\ FilledFrom(Deref(out.author), Upstream(authorUrl),
                                               authorUrl)
                   /\ ~unit.ok => out.err # "nil" /\ out.author = Nil
          /\ (~own /\ ~regTagAuthor(id))
                => out.err # "nil" /\ out.author = Nil /\ out.events = <<>>

\* The resolver of the books feed of author 1, page 2, was asked for author 9
\* and returned the author with the bio and avatar of /opds/author/9.
C22_Witness ==
    /\ unit.fn = "resolve" /\ unit.done /\ unit.ok
    /\ unit.ar.feed = U(<<"opds", "authorbooks", "1">>, "page=2")
    /\ unit.id = <<"tag", "author", "9">>
    /\ Deref(unit.out.author).bio = "bio nine"
    /\ Deref(unit.out.author).avatar # <<>>
    /\ Len(unit.out.events) = 1

\* The resolver was asked for its own author, and for an id of no author.
C22_OwnAuthor ==
    /\ unit.fn = "resolve" /\ unit.done
    /\ unit.ar.author # Nil /\ unit.id = Deref(unit.ar.author).id
    /\ unit.out.events = <<>>
C22_NoAuthorId ==
    /\ unit.fn = "resolve" /\ unit.done
    /\ unit.id = <<"tag", "author", "x">>
    /\ unit.out.err # "nil"

(* ---------------------------------- C23 -------------------------------- *)

\* The ids of the rows of a table.
IdsOf(rows) == {r.id : r \in rows}

\* The events a step adds to the trace.
Added == {trace'[k] : k \in (Len(trace) + 1)..Len(trace')}

\* A step keeps every author, book and series; it adds a fail row only as the
\* Save of a Handler call and removes one only as the DeleteById of the
\* resume driver.
NothingDeleted ==
    /\ authorTable \subseteq authorTable'
    /\ bookTable \subseteq bookTable'
    /\ seriesTable \subseteq seriesTable'
    /\ IdsOf(db.author) \subseteq IdsOf(db'.author)
    /\ IdsOf(db.book) \subseteq IdsOf(db'.book)
    /\ IdsOf(db.series) \subseteq IdsOf(db'.series)
    /\ fails' \ fails # {}
         => /\ fails \subseteq fails'
            /\ \E e \in Added :
                  /\ e.ev = "Handle" /\ e.ok
                  /\ \E r \in fails' : fails' \ fails = {r} /\ r.feed = pgxFeed(e.feed)
    /\ fails \ fails' # {}
         => /\ fails' \subseteq fails
            /\ stack # <<>> /\ Top.fn = "resume"
            /\ \E e \in Added :
                  /\ e.ev = "DeleteById" /\ e.ok
                  /\ \E r \in fails : fails \ fails' = {r} /\ r.id = e.n

\* C23: nothing in the core deletes authors, books or series: no step of a
\* crawl, a resume run or a Consumer call takes an id out of the author, book
\* or series table; fail rows are created only by the Error Handler and
\* deleted only by the resume driver.
C23_NothingDeleted == [][NothingDeleted]_vars

\* The Handler has written two fail rows in a crawl that stored authors,
\* books and series, and the resume run has deleted one of them.
C23_Witness ==
    /\ authorTable # {} /\ bookTable # {} /\ seriesTable # {}
    /\ run.kind = "resume"
    /\ \E j, k \in Events :
         /\ trace[j].ev = "Handle" /\ trace[j].ok
         /\ trace[k].ev = "DeleteById" /\ trace[k].ok
    /\ Cardinality(fails) = 1

\* The store holds authors, books and series that a second call has written
\* again.
C23_RowsRewritten ==
    /\ hist.mode = "calls" /\ Len(hist.calls) = 2 /\ AllIdle
    /\ db.author # {} /\ db.book # {} /\ db.series # {}

(* ---------------------------------- C24 -------------------------------- *)

\* The Handler calls up to k whose Save succeeded, and the one that wrote the
\* row with the id (the ids come from the serial, one per row written).
SavesUpTo(k) == {j \in 1..k : trace[j].ev = "Handle" /\ trace[j].ok}
WrittenAt(id) == CHOOSE k \in Events : k \in SavesUpTo(k) /\ Cardinality(SavesUpTo(k)) = id

\* The start of the run that is under way at k: the instant of its boot.
StartOfRunAt(k) == RunAt(k)

\* C24: every fail row written during one run, a crawl or a resume run,
\* carries the start time of that run, taken once at boot, whenever in the run
\* the failure occurred; and when the write of the row fails, Handle returns
\* an error, which comes up as an unresumable HandlerError: no row is
\* written and the run ends with that error.
C24_StartTimeOfRun ==
    /\ failSeq = Cardinality(SavesUpTo(Len(trace)))
    /\ \A r \in fails : r.start_time = StartOfRunAt(WrittenAt(r.id))
    /\ \A k \in Events :
         (trace[k].ev = "Handle" /\ ~trace[k].ok) =>
            /\ Unresumable(Err("handler", k))
            /\ \A j \in Events :
                 (j > k /\ RunAt(j) = RunAt(k)) =>
                    /\ trace[j].ev \in {"returned", "exit"}
                    /\ trace[j].err = Err("handler", k)

\* Two fail rows of one run, written with a Consumer call between the two
\* failures, carry the start time of the run.
C24_Witness ==
    \E r, s \in fails :
        /\ r.id < s.id /\ r.start_time = s.start_time
        /\ RunAt(WrittenAt(r.id)) = RunAt(WrittenAt(s.id))
        /\ \E k \in WrittenAt(r.id)..WrittenAt(s.id) :
              trace[k].ev \in {"ConsumeAuthor", "ConsumeBooks", "ConsumeSeries"}

\* A resume run wrote a fail row: its start time is that of the resume run.
C24_ResumeRow ==
    \E r \in fails, s \in fails : r.start_time = 1 /\ s.start_time = 2 /\ run.kind = "resume"

\* The write of a fail row failed and the run exited with the HandlerError.
C24_HandlerError ==
    /\ status = "done" /\ exitCode = 1
    /\ \E k \in Events : trace[k].ev = "Handle" /\ ~trace[k].ok /\ RunAt(k) = run.no

(* ---------------------------------- C25 -------------------------------- *)

\* The tag and the link predicate an index crawl applies to an entry: a nested
\* index or a leaf (an author description, a series) of its tree.
IndexCrawls == {"authors.crawl", "series.crawl"}
Nested(fn, entry) ==
    IF fn = "authors.crawl" THEN regTagAuthors(entry.id) ELSE regTagSeries(entry.id)
Leaf(fn, entry) ==
    IF fn = "authors.crawl" THEN regTagAuthor(entry.id) ELSE regTagSequence(entry.id)
PredicateOf(fn, entry) ==
    IF Nested(fn, entry) THEN "isCatalog"
    ELSE IF fn = "authors.crawl" THEN "isAuthorLink" ELSE "isSequenceLink"

\* The three ways an entry of an index is malformed or unknown.
UnknownTag(fn, entry) == ~Nested(fn, entry) /\ ~Leaf(fn, entry)
NoLinkAccepted(fn, entry) ==
    /\ ~UnknownTag(fn, entry)
    /\ \A k \in 1..Len(entry.links) :
          ~Matches(PredicateOf(fn, entry), TrimLink(entry.links[k]))
HrefUnparsed(fn, entry) ==
    /\ ~UnknownTag(fn, entry) /\ ~NoLinkAccepted(fn, entry)
    /\ Deref(chooseLink(entry.links, PredicateOf(fn, entry))).href = BadHref
Malformed(fn, entry) ==
    UnknownTag(fn, entry) \/ NoLinkAccepted(fn, entry) \/ HrefUnparsed(fn, entry)

\* The feed a well-formed entry leads to.
TargetOf(f, entry) ==
    ResolveReference(f.feed, Deref(chooseLink(entry.links, PredicateOf(f.fn, entry))).href)

\* A turn of an entry loop at a malformed entry moves to the next entry and
\* does nothing else: no event, no fail row, no return.
SkipsMalformed ==
    (/\ Running /\ Top.fn \in IndexCrawls /\ Top.pc = "entries"
     /\ Top.i <= Len(Upstream(Top.feed).entries)
     /\ Malformed(Top.fn, Upstream(Top.feed).entries[Top.i]))
    => /\ trace' = trace /\ fails' = fails /\ failSeq' = failSeq
       /\ status' = status /\ ~ret'.set
       /\ stack' = [stack EXCEPT ![Len(stack)] = [Top EXCEPT !.i = Top.i + 1]]

\* Every well-formed entry an entry loop under way has passed was fetched in
\* this run, whatever malformed entries came before it.
SiblingsProcessed ==
    \A d \in 1..Len(stack) :
        LET f == stack[d]
            entries == Upstream(f.feed).entries
        IN f.fn \in IndexCrawls =>
             \A j \in 1..Len(entries) :
                 (j < f.i /\ ~Malformed(f.fn, entries[j])) =>
                    \E k \in Events :
                        /\ RunAt(k) = run.no /\ trace[k].ev = "fetch"
                        /\ trace[k].url = TargetOf(f, entries[j])

\* C25: an index entry whose id matches no known tag, that has no link the
\* link predicate accepts, or whose href cannot be parsed is skipped: it
\* causes no Handler call, no Consumer call and no abort, and the entries
\* after it in the feed are still processed.
C25_MalformedSkipped == []SiblingsProcessed /\ [][SkipsMalformed]_vars

\* The authors index is past its three entries: the entry of an unknown tag
\* was skipped and the author after it was crawled, with no Handler call.
C25_Witness ==
    /\ Running /\ Top.fn = "authors.crawl" /\ Top.feed = AuthorsRoot
    /\ Top.pc = "entries" /\ Top.i = 4
    /\ UnknownTag(Top.fn, Upstream(Top.feed).entries[2])
    /\ \E k \in Events : trace[k].ev = "fetch" /\ trace[k].url = U(<<"opds", "author", "1">>, "")
    /\ \A k \in Events : trace[k].ev # "Handle"

\* The second page of the authors index is past both of its entries: one with
\* no accepted link, one whose href does not parse.
C25_NoLinkAndBadHref ==
    /\ Running /\ Top.fn = "authors.crawl" /\ Top.feed = U(<<"opds", "authorsindex">>, "page=2")
    /\ Top.pc = "entries" /\ Top.i = 3
    /\ NoLinkAccepted(Top.fn, Upstream(Top.feed).entries[1])
    /\ HrefUnparsed(Top.fn, Upstream(Top.feed).entries[2])
    /\ \A k \in Events : trace[k].ev # "Handle"

\* The series index skipped the entry of an unknown tag on its second page.
C25_SeriesUnknown ==
    /\ Running /\ Top.fn = "series.crawl" /\ Top.feed = U(<<"opds", "sequencesindex">>, "page=2")
    /\ Top.pc = "entries" /\ Top.i = 2
    /\ UnknownTag(Top.fn, Upstream(Top.feed).entries[1])

(* ---------------------------------- C26 -------------------------------- *)

\* The Author state has fetched and parsed the author description at k.
DescriptionFetched(k) ==
    trace[k].ev = "fetch" /\ trace[k].ok /\ trace[k].by = "author"
DescribedAt(k) == Deref(trace[k].feed.author).id

\* The entries of the description that give the books feed: the alphabet
\* entry with a catalog link that parses.
BooksEntries(page) ==
    {j \in 1..Len(page.entries) :
        /\ regTagAuthorBooks(page.entries[j].id)
        /\ \E l \in Range(page.entries[j].links) : isCatalog(TrimLink(l))
        /\ Deref(chooseLink(page.entries[j].links, "isCatalog")).href # BadHref}
BooksFeedOf(page, authorUrl) ==
    ResolveReference(authorUrl,
        Deref(chooseLink(page.entries[Min(BooksEntries(page))].links, "isCatalog")).href)

\* The ConsumeAuthor calls for the author that follow the fetch at k, up to
\* the next fetch of a description of the same author.
EmittedFor(k) ==
    {j \in Events :
        /\ j > k /\ trace[j].ev = "ConsumeAuthor"
        /\ Deref(trace[j].author).id = DescribedAt(k)
        /\ \A m \in (k + 1)..j : ~(DescriptionFetched(m) /\ DescribedAt(m) = DescribedAt(k))}

\* After the fetch at k the Author state emits ConsumeAuthor once, for the
\* author with bio and avatar as the description has them, and then goes on
\* to the books feed of the author.
EmitsThenBooks(k) ==
    IF k = Len(trace)
    THEN Running /\ Top.fn = "author" /\ Top.pc = "consume"
    ELSE /\ EmittedFor(k) = {k + 1}
         /\ FilledFrom(Deref(trace[k + 1].author), Upstream(trace[k].url), trace[k].url)
         /\ (trace[k + 1].ok /\ k + 1 < Len(trace))
               => /\ trace[k + 2].ev = "fetch" /\ trace[k + 2].by = "books.crawl"
                  /\ trace[k + 2].url = BooksFeedOf(Upstream(trace[k].url), trace[k].url)

\* C26: in the Author state, whenever the author description is fetched and
\* parsed, the crawl emits exactly one ConsumeAuthor call for that author,
\* with bio and avatar filled from the description when present, and then
\* moves to the Books state for the author's books feed.
C26_EmitsForEveryDescription ==
    \A k \in Events : DescriptionFetched(k) => EmitsThenBooks(k)

\* What holds instead: the description must give a books feed; an author whose
\* description gives none is left without a Consumer call, a Handler call or
\* an error.
C26_EmitsWhenBooksFeed ==
    \A k \in Events :
        DescriptionFetched(k) =>
            IF BooksEntries(Upstream(trace[k].url)) # {} THEN EmitsThenBooks(k)
            ELSE /\ EmittedFor(k) = {}
                 /\ k < Len(trace) => /\ trace[k + 1].ev \notin {"Handle", "consumerError"}
                                      /\ trace[k + 1].err.kind \in {"nil", "fetch"}
                 /\ DescribedAt(k) \notin authorTable

\* A run that fetched the description of author 7, which has a bio and no
\* books feed, ended with exit code 0: the author was not emitted, is not
\* stored and has no fail row.
C26_Witness ==
    /\ status = "done" /\ exitCode = 0 /\ run.no = 1
    /\ \E k \in Events :
         /\ DescriptionFetched(k) /\ DescribedAt(k) = <<"tag", "author", "7">>
         /\ BioEntries(Upstream(trace[k].url)) # {}
         /\ BooksEntries(Upstream(trace[k].url)) = {}
         /\ EmittedFor(k) = {}
    /\ <<"tag", "author", "7">> \notin authorTable
    /\ fails = {}

\* The description of author 1 was fetched, the author emitted and the books
\* feed of the author fetched.
C26_Emitted ==
    \E k \in Events :
        /\ DescriptionFetched(k) /\ DescribedAt(k) = <<"tag", "author", "1">>
        /\ k + 2 <= Len(trace) /\ trace[k + 1].ok /\ EmitsThenBooks(k)

(* ---------------------------------- C30 -------------------------------- *)

\* UTF-8: the encoding of a scalar value (a code point that is no surrogate).
ScalarValue(r) == (r >= 0 /\ r <= 55295) \/ (r >= 57344 /\ r <= 1114111)
Encode(r) ==
    IF r < 128 THEN <<r>>
    ELSE IF r < 2048 THEN <<192 + (r \div 64), 128 + (r % 64)>>
    ELSE IF r < 65536
    THEN <<224 + (r \div 4096), 128 + ((r \div 64) % 64), 128 + (r % 64)>>
    ELSE <<240 + (r \div 262144), 128 + ((r \div 4096) % 64), 128 + ((r \div 64) % 64),
           128 + (r % 64)>>

\* The number the first n bytes would encode, and the widths n for which they
\* are the encoding of a scalar value (one at most: the code is prefix-free).
Candidate(bs, n) ==
    CASE n = 1 -> bs[1]
      [] n = 2 -> (bs[1] - 192) * 64 + (bs[2] - 128)
      [] n = 3 -> (bs[1] - 224) * 4096 + (bs[2] - 128) * 64 + (bs[3] - 128)
      [] n = 4 -> (bs[1] - 240) * 262144 + (bs[2] - 128) * 4096 + (bs[3] - 128) * 64
                     + (bs[4] - 128)
Widths(bs) ==
    {n \in 1..4 : /\ n <= Len(bs)
                  /\ ScalarValue(Candidate(bs, n))
                  /\ Encode(Candidate(bs, n)) = SubSeq(bs, 1, n)}

RECURSIVE RunesOf(_)
\* Whether the bytes are valid UTF-8, and the runes they encode.
RunesOf(bs) ==
    IF bs = <<>> THEN [valid |-> TRUE, runes |-> <<>>]
    ELSE IF Widths(bs) = {} THEN [valid |-> FALSE, runes |-> <<>>]
    ELSE LET n == CHOOSE n \in Widths(bs) : TRUE
             rest == RunesOf(SubSeq(bs, n + 1, Len(bs)))
         IN [valid |-> rest.valid, runes |-> <<Candidate(bs, n)>> \o rest.runes]

RECURSIVE EncodeAll(_)
EncodeAll(runes) ==
    IF runes = <<>> THEN <<>> ELSE Encode(Head(runes)) \o EncodeAll(Tail(runes))

\* Char of XML 1.0:
\* #x9 | #xA | #xD | [#x20-#xD7FF] | [#xE000-#xFFFD] | [#x10000-#x10FFFF].
XmlChar(r) ==
    r \in {9, 10, 13} \/ (32 <= r /\ r <= 55295) \/ (57344 <= r /\ r <= 65533)
        \/ (65536 <= r /\ r <= 1114111)
NotSoh(b) == b # 1

\* C30: removeDisallowedCodepoints returns exactly the runes of the input
\* that lie in the Char production of XML 1.0, in their order, and drops
\* every other rune; so a document with 0x01 bytes interspersed is cleansed
\* to the bytes of the document without them, and cleansing what was cleansed
\* changes nothing; an input with an invalid UTF-8 byte is returned as it is.
C30_XmlCleansing ==
    (unit.fn = "removeDisallowedCodepoints" /\ unit.done)
    => LET d == RunesOf(unit.bs)
       IN /\ ~d.valid => unit.out = unit.bs
          /\ d.valid => unit.out = EncodeAll(SelectSeq(d.runes, XmlChar))
          /\ (d.valid /\ \A k \in 1..Len(d.runes) : d.runes[k] # 1 => XmlChar(d.runes[k]))
                => unit.out = SelectSeq(unit.bs, NotSoh)
          /\ removeDisallowedCodepoints(unit.out) = unit.out

\* A document "A", U+00E9 with a 0x01 byte between the two was cleansed to
\* the document.
C30_Witness ==
    /\ unit.fn = "removeDisallowedCodepoints" /\ unit.done
    /\ unit.bs = <<65, 1, 195, 169>>
    /\ unit.out = <<65, 195, 169>>

\* An input with a 0x01 byte and an invalid byte came back as it was.
C30_InvalidUnmodified ==
    /\ unit.fn = "removeDisallowedCodepoints" /\ unit.done
    /\ unit.bs = <<65, 1, 255>> /\ unit.out = unit.bs

\* Runes outside the Char production other than 0x01 were dropped: U+FFFE
\* went, U+FFFD and U+10000 stayed.
C30_OtherRunesDropped ==
    /\ unit.fn = "removeDisallowedCodepoints" /\ unit.done
    /\ unit.bs = <<239, 191, 189>> \o <<239, 191, 190>> \o <<240, 144, 128, 128>>
    /\ unit.out = <<239, 191, 189>> \o <<240, 144, 128, 128>>

(* ---------------------------------- C27 -------------------------------- *)

\* fetchAndUnmarshal has returned for a response of the status.
Answered(code) ==
    /\ unit.fn = "fetchAndUnmarshal" /\ unit.done
    /\ unit.answer.transport = "ok" /\ unit.answer.status = code

\* C27: a feed request that the upstream answers with HTTP status 500 is a
\* failed fetch of that feed: fetchAndUnmarshal returns an error (which the
\* caller hands to the Handler once, with the descriptor of the feed) and
\* nothing of the response body reaches the caller as a feed.
C27_Status500Fails ==
    Answered(500) => unit.out.err # "nil" /\ unit.out.feed = Nil

\* What holds instead: the outcome rests on the transport and the body alone.
\* The fetch fails when the request or the read fails or the body is no XML
\* document after cleansing, and otherwise succeeds with the feed of the body,
\* whatever the status.
C27_StatusNotRead ==
    (unit.fn = "fetchAndUnmarshal" /\ unit.done)
    => LET a == unit.answer
           parses == /\ a.transport = "ok" /\ a.doc = "feed"
                     /\ RunesOf(a.lead).valid
       IN /\ parses => unit.out.err = "nil" /\ unit.out.feed = Ref(Upstream(unit.url))
          /\ ~parses => unit.out.err # "nil" /\ unit.out.feed = Nil

\* The second page of the authors index was answered with status 500 and a
\* body that is a feed: the fetch succeeded with the entries of the body.
C27_Witness ==
    /\ Answered(500) /\ unit.answer.doc = "feed" /\ unit.answer.lead = <<>>
    /\ unit.url = U(<<"opds", "authorsindex">>, "page=2")
    /\ unit.out.err = "nil"
    /\ Deref(unit.out.feed).entries # <<>>

\* A response of status 500 with a body that is no XML: the fetch failed.
C27_Status500NoXml ==
    /\ Answered(500) /\ unit.answer.doc = "text"
    /\ unit.out.err = "unmarshalling" /\ unit.out.feed = Nil

(* ---------------------------------- C28 -------------------------------- *)

\* Comparison of titles: letter case folded, blanks at the ends left out,
\* and the order of two strings.
Fold(r) == IF r \in (65..90) \cup (1040..1071) THEN r + 32 ELSE r
Folded(s) == [k \in 1..Len(s) |-> Fold(s[k])]
Trimmed(s) ==
    LET ks == {k \in 1..Len(s) : s[k] \notin {9, 10, 11, 12, 13, 32}}
    IN IF ks = {} THEN <<>>
       ELSE SubSeq(s, CHOOSE k \in ks : \A j \in ks : k <= j,
                      CHOOSE k \in ks : \A j \in ks : j <= k)
Precedes(s, t) ==
    \E k \in 1..Len(t) :
        /\ \A j \in 1..(k - 1) : j <= Len(s) /\ s[j] = t[j]
        /\ k = Len(s) + 1 \/ (k <= Len(s) /\ s[k] < t[k])

\* parseBook has returned the genres g.
Parsed == unit.fn = "parseBook" /\ unit.done

\* Each genre is a category term as the entry spells it, trimmed.
SpellingKept ==
    \A i \in 1..Len(unit.genres) :
        \E k \in 1..Len(unit.category) : unit.genres[i] = Trimmed(unit.category[k])

\* C28: the genres of every book the extractor emits are sorted ascending
\* case-insensitively, each title in the spelling of the entry.
C28_SortedIgnoringCase ==
    Parsed => /\ \A i \in 1..(Len(unit.genres) - 1) :
                    ~Precedes(Folded(unit.genres[i + 1]), Folded(unit.genres[i]))
              /\ SpellingKept

\* What holds instead: the genres ascend in the order of their bytes, capitals
\* before small letters.
C28_SortedByBytes ==
    Parsed => /\ \A i \in 1..(Len(unit.genres) - 1) :
                    Precedes(unit.genres[i], unit.genres[i + 1])
              /\ SpellingKept

\* The categories "a", "B" gave the genres "B", "a".
C28_Witness ==
    /\ Parsed /\ unit.category = <<<<97>>, <<66>>>>
    /\ unit.genres = <<<<66>>, <<97>>>>

(* ---------------------------------- C29 -------------------------------- *)

\* The category elements whose term, trimmed, is not the term of an earlier
\* element up to letter case.
FirstSeen(category) ==
    {k \in 1..Len(category) :
        \A m \in 1..(k - 1) :
            Folded(Trimmed(category[m])) # Folded(Trimmed(category[k]))}

\* C29: the genres of every book the extractor emits hold no two titles that
\* are equal under case-insensitive comparison: of the category terms that
\* differ only by case after trimming one is kept, in the spelling seen first,
\* so that "fantasy", "Fantasy", "FANTASY" give one genre.
C29_NoCaseDuplicates ==
    Parsed => /\ \A i, j \in 1..Len(unit.genres) :
                    Folded(unit.genres[i]) = Folded(unit.genres[j]) => i = j
              /\ Range(unit.genres) = {Trimmed(unit.category[k]) : k \in FirstSeen(unit.category)}
              /\ Len(unit.genres) = Cardinality(FirstSeen(unit.category))

\* The categories "aa", "Aa", "AA" gave the one genre "aa".
C29_Witness ==
    /\ Parsed /\ unit.category = <<<<97, 97>>, <<65, 97>>, <<65, 65>>>>
    /\ unit.genres = <<<<97, 97>>>>

\* The categories " a", "A", "a " gave the one genre "a"; "А", "b", "а" gave
\* "b" and the capital "А".
C29_Trimmed ==
    /\ Parsed /\ unit.category = <<<<32, 97>>, <<65>>, <<97, 32>>>>
    /\ unit.genres = <<<<97>>>>
C29_Cyrillic ==
    /\ Parsed /\ unit.category = <<<<1040>>, <<98>>, <<1072>>>>
    /\ unit.genres = <<<<98>>, <<1040>>>>

(* ---------------------------------- C31 -------------------------------- *)

\* chooseLink has returned; the links of the entry the predicate accepts,
\* rel and type trimmed.
Chosen == unit.fn = "chooseLink" /\ unit.done
AcceptedLinks ==
    {k \in 1..Len(unit.links) :
        Matches(unit.matcher, [unit.links[k] EXCEPT !.rel = TrimSpace(@),
                                                    !.type = TrimSpace(@)])}

\* The link returned is the first accepted link of the entry, or null when
\* there is none.
FirstMatch(link) ==
    IF AcceptedLinks = {} THEN link = Nil
    ELSE /\ link # Nil
         /\ \E k \in AcceptedLinks :
              /\ \A j \in AcceptedLinks : k <= j
              /\ Deref(link).href = unit.links[k].href
              /\ Deref(link).rel = TrimSpace(unit.links[k].rel)
              /\ Deref(link).type = TrimSpace(unit.links[k].type)

C31_FirstMatchWinsShared == Chosen => FirstMatch(unit.shared)

\* With either range variable, null is returned exactly when no link matches.
C31_NullIffNoMatch ==
    Chosen => /\ (unit.out = Nil) = (AcceptedLinks = {})
              /\ (unit.shared = Nil) = (AcceptedLinks = {})

C31_Padded ==
    /\ Chosen /\ unit.matcher = "isNext" /\ Len(unit.links) = 2
    /\ unit.links[2].rel = " next "
    /\ unit.out # Nil /\ Deref(unit.out).rel = "next"
    /\ Deref(unit.out).href = U(<<>>, "page=3")

\* Built with one range variable, the same call returns the last link of the
\* entry although an earlier link matched.
C31_SharedReturnsLast ==
    /\ Chosen /\ unit.matcher = "isCatalog"
    /\ unit.links = <<Catalog(<<"opds", "author", "1">>),
                      Link("alternate", "text/html", U(<<"a">>, ""))>>
    /\ unit.shared = Ref(Link("alternate", "text/html", U(<<"a">>, "")))

(* ------------------------------------------------------------------------ *)
\* C32: ConsumeBooks saves exactly the books of the batch that are absent
\* from the store or differ from their stored copy in title, author sequence,
\* genre sequence, language, year, about or cover, and rewrites the
\* book_author and book_genre rows of those books only: the book row and the
\* link rows of every other book of the batch stay as they were.

InBooks == cons[1].fn = "ConsumeBooks" /\ hist.mode = "diff"

\* The stored copy of a book as the call found it, if any.
StoredCopy(id) == BooksGetByIds(cons[1].pre, {id})

Compared(b) ==
    <<b.title, b.authors, b.genres, b.language, b.year, b.about, b.cover>>

AbsentOrChanged(b) ==
    \/ StoredCopy(b.id) = {}
    \/ \E e \in StoredCopy(b.id) : Compared(e) # Compared(b)

\* The book row and the link rows of a book in tables d.
RowsOf(d, id) ==
    [book |-> {r \in d.book : r.id = id},
     book_author |-> {r \in d.book_author : r.book_id = id},
     book_genre |-> {r \in d.book_genre : r.book_id = id}]

\* The call is past its diff.
Diffed ==
    \/ cons[1].pc \in {"Books.Save", "LinkBookAndAuthors.Delete",
                        "LinkBookAndAuthors.Insert", "LinkBookAndGenres.Delete",
                        "LinkBookAndGenres.Insert"}
    \/ cons[1].pc = "return" /\ cons[1].err = "nil"

Batch == {cons[1].books[j] : j \in 1..Len(cons[1].books)}

SavesExactly == Diffed => Range(cons[1].save) = {b \in Batch : AbsentOrChanged(b)}

OthersUntouched ==
    \A b \in Batch :
        ~AbsentOrChanged(b) => RowsOf(db, b.id) = RowsOf(cons[1].pre, b.id)

\* The call has returned no error: every saved book is stored as the batch
\* has it.
SavedAsGiven ==
    cons[1].pc = "return" /\ cons[1].err = "nil"
        => \A b \in Batch : \E e \in BooksGetByIds(db, {b.id}) :
                               Compared(e) = Compared(b)

C32_SavesChangedOnly == InBooks => SavesExactly /\ OthersUntouched /\ SavedAsGiven

\* A batch of a changed book and an unchanged one has been saved and linked:
\* the changed one alone was saved.
C32_Witness ==
    /\ InBooks /\ cons[1].pc = "return" /\ cons[1].err = "nil"
    /\ Len(cons[1].books) = 2 /\ Len(cons[1].save) = 1
    /\ \E b \in Batch : ~AbsentOrChanged(b)
    /\ \E b \in Batch : StoredCopy(b.id) # {} /\ AbsentOrChanged(b)

\* A book that differs from its stored copy in the year alone is saved.
C32_YearAlone ==
    /\ InBooks /\ cons[1].pc = "return" /\ cons[1].err = "nil"
    /\ \E b \in Range(cons[1].save) : \E e \in StoredCopy(b.id) :
         /\ e.year # b.year
         /\ [e EXCEPT !.year = b.year] = b

(* ------------------------------------------------------------------------ *)
\* C33: the batch made of a books page or of a series feed never holds two
\* books with the same id: of the entries with one id the first alone is kept,
\* and the kept entries stand in the order of the feed.

Collected == unit.fn \in {"books.crawl", "sequence"} /\ unit.done

\* The book entries that are the first of their id.
FirstOfId ==
    {j \in 1..Len(unit.entries) :
        /\ regTagBook(unit.entries[j].id)
        /\ \A i \in 1..(j - 1) : unit.entries[i].id # unit.entries[j].id}

\* The place in the batch of the kept entry j.
PlaceOf(j) == Cardinality({i \in FirstOfId : i <= j})

C33_BatchHasNoDuplicates ==
    Collected =>
        /\ \A i, j \in 1..Len(unit.bks) : unit.bks[i].id = unit.bks[j].id => i = j
        /\ Len(unit.bks) = Cardinality(FirstOfId)
        /\ \A j \in FirstOfId : unit.bks[PlaceOf(j)] = parseBook(unit.entries[j])

\* Book 1 twice with another book between: the first entry of book 1 is in the
\* batch, before the other book.
C33_Witness ==
    /\ Collected
    /\ Len(unit.entries) = 3 /\ Len(unit.bks) = 2
    /\ unit.entries[1].id = unit.entries[3].id
    /\ unit.entries[1] # unit.entries[3]
    /\ unit.bks[1] = parseBook(unit.entries[1])
    /\ unit.bks[2] = parseBook(unit.entries[2])

\* In the crawl: no Consumer call carries two books with the same id.
C33_CallsHaveNoDuplicates ==
    \A k \in Events :
        trace[k].ev \in {"ConsumeBooks", "ConsumeSeries"} =>
            \A i, j \in 1..Len(trace[k].books) :
                trace[k].books[i].id = trace[k].books[j].id => i = j

\* In the crawl: the page with two entries of book 1 has been passed on.
C33_DuplicateOnPage ==
    \E k \in Events :
        /\ trace[k].ev = "ConsumeBooks"
        /\ trace[k].url = U(<<"opds", "authorbooks", "1">>, "")
        /\ Len(trace[k].books) = 1

(* ------------------------------------------------------------------------ *)
\* C34: parseBook sets the year to the base-10 value of the trimmed issued
\* text when that is an unsigned integer in 0..65535, and to 0 when the text
\* is empty, is no base-10 unsigned integer or is greater than 65535; a book
\* comes out in every case.

YearParsed == unit.fn = "year" /\ unit.done

\* The issued text without the white space around it.
IssuedText ==
    LET inner == {j \in 1..Len(unit.issued) : ~isSpace(unit.issued[j])}
    IN IF inner = {} THEN <<>>
       ELSE SubSeq(unit.issued, Min(inner), CHOOSE j \in inner : \A i \in inner : i <= j)

IsDecimal(s) == s # <<>> /\ \A j \in 1..Len(s) : s[j] \in 48..57

RECURSIVE DecimalValue(_)
DecimalValue(s) ==
    IF s = <<>> THEN 0 ELSE 10 * DecimalValue(SubSeq(s, 1, Len(s) - 1)) + (s[Len(s)] - 48)

C34_YearOfIssued ==
    YearParsed =>
        /\ unit.out.year \in 0..65535
        /\ unit.out.year =
             IF IsDecimal(IssuedText) /\ DecimalValue(IssuedText) <= 65535
             THEN DecimalValue(IssuedText) ELSE 0

\* " 6553": white space trimmed, year 6553.
C34_Witness ==
    /\ YearParsed
    /\ unit.issued = <<32, 54, 53, 53, 51>>
    /\ unit.out.year = 6553

\* "65535" is the greatest year taken.
C34_Greatest == YearParsed /\ unit.issued = <<54, 53, 53, 51, 53>> /\ unit.out.year = 65535

\* "65536" gives 0 with the warning.
C34_TooGreat ==
    /\ YearParsed /\ unit.issued = <<54, 53, 53, 51, 54>>
    /\ unit.out.year = 0 /\ unit.out.warned

\* "+5" and "6-05" give 0 with the warning.
C34_NoNumber ==
    /\ YearParsed /\ unit.issued \in {<<43, 53>>, <<54, 45, 48, 53>>}
    /\ unit.out.year = 0 /\ unit.out.warned

(* ------------------------------------------------------------------------ *)
\* C35: the resume driver terminates for every threshold T, a T at or after
\* the start time of the resuming run included, and even when every replayed
\* subtree fails again: in the end a fetch of the fail rows returns none or
\* an error stops the loop.

C35_DriverTerminates == <>(status = "done")

\* With a threshold before the start time of the run the loop ends.
C35_TerminatesBelowOwnStart == (run.T < run.startTime) => <>(status = "done")

\* The state the loop comes back to: the run has fetched a row that it wrote
\* itself.
C35_Witness ==
    /\ mode = "loop" /\ status = "running" /\ Top.pc = "loop"
    /\ run.T >= run.startTime
    /\ \E j \in 1..Len(Top.batch) : Top.batch[j].start_time = run.startTime

\* With a threshold before its start time a run never fetches a row of its
\* own.
C35_OwnRowsNotFetched ==
    mode = "loop" /\ status = "running" /\ run.T < run.startTime
        => \A j \in 1..Len(Top.batch) : Top.batch[j].start_time < run.startTime

\* In the crawl: a resume run with its own start time for threshold has fetched
\* a row that it recorded itself.
C35_OwnRowInCrawl ==
    /\ mode = "free" /\ status = "running" /\ stack # <<>>
    /\ stack[1].fn = "resume" /\ stack[1].pc = "loop"
    /\ run.T = run.startTime
    /\ \E j \in 1..Len(stack[1].batch) : stack[1].batch[j].start_time = run.startTime

(* ------------------------------------------------------------------------ *)
\* C36: a resume run neither loses nor multiplies a recorded failure: when the
\* replayed subtree fails again at its root, Resume hands the Handler the
\* descriptor it was given and returns nil, the driver deletes the old row,
\* and then one fail row with that descriptor exists, with the start time of
\* the resuming run.

\* The replay that began with the Resume event k failed at its root with the
\* event j: the feed of the descriptor itself could not be walked.
FailedAgain(k, j) ==
    /\ trace[k].ev = "Resume" /\ k < j
    /\ IsFailure(trace[j]) /\ trace[j].url = trace[k].feed.url
    /\ \A i \in (k + 1)..j : trace[i].ev # "Resume"

\* No DeleteById of the driver has failed so far.
DeletesWell == \A i \in Events : trace[i].ev = "DeleteById" => trace[i].ok

\* The rows of the descriptor.
RowsOfFeed(feed) == {r \in fails : r.feed = pgxFeed(feed)}

C36_AuthorFailedAgain ==
    \E k \in Events :
        /\ k + 4 = Len(trace) /\ FailedAgain(k, k + 1)
        /\ trace[k].feed.type = FeedTypeAuthor
        /\ trace[k + 4].ev = "DeleteById" /\ trace[k + 4].ok
        /\ Cardinality(RowsOfFeed(trace[k].feed)) = 1

(* ------------------------------------------------------------------------ *)
\* C37: a ConsumeBooks or ConsumeSeries call that is cut short after any
\* prefix of its store writes and is then replayed to its end leaves the store
\* as the same call does when nothing cuts it short: the diff never skips a
\* book whose row was saved and whose book_author or book_genre rows were not
\* yet rewritten.

\* The replay has ended, and so has the whole call on the second store, both
\* without an error.
Compared2 == hist.mode = "cut" /\ hist.pass = 4 /\ AllIdle /\ hist.errs = 1

\* The tables at the failed write.
CutAt == hist.mode = "cut" /\ hist.pass = 2 /\ cons[1].pc = "return" /\ cons[1].err = "store"

\* The tables with the genres by their titles: the ids of the genre rows come
\* from the serial in the order the titles of a batch are inserted, which is
\* not the same from one call to the next.
ByTitle(t) ==
    [t EXCEPT !.genre = {g.title : g \in t.genre},
              !.book_genre = {[book_id |-> r.book_id,
                               title |-> (CHOOSE g \in t.genre : g.id = r.genre_id).title]
                                : r \in t.book_genre}]

C37_ReplayEqualsWhole == Compared2 => ByTitle(Tables(db)) = ByTitle(hist.replayed)

\* A book whose row is saved and whose link rows are still the old ones (or
\* missing) is in the save list of the replay.
C37_HalfSavedNotSkipped ==
    (hist.mode = "cut" /\ hist.pass = 3 /\ Diffed) =>
        \A b \in Batch :
            (\/ subAuthors(db, b.id) # b.authors
             \/ ~(\E r \in db.book : r.id = b.id))
                => b \in Range(cons[1].save)

\* The call was cut after the book row was saved and before the author links
\* were rewritten, the book being stored before with other authors; replay
\* and whole call agree.
C37_Witness ==
    /\ Compared2
    /\ ByTitle(Tables(db)) = ByTitle(hist.replayed)
    /\ hist.calls[1].fn = "ConsumeBooks"
    /\ hist.dirty = 1
    /\ \E b \in Range(hist.calls[1].books) :
         /\ \E r \in hist.before.book : r.id = b.id
         /\ subAuthors(hist.before, b.id) # b.authors
         /\ subAuthors(db, b.id) = b.authors

\* The book row was saved, the insert of the author links failed after their
\* delete.
C37_CutBetweenDeleteAndInsert ==
    /\ CutAt
    /\ \E b \in Range(cons[1].books) :
         /\ \E r \in db.book : r.id = b.id
         /\ b.authors # <<>> /\ subAuthors(db, b.id) = <<>>
         /\ subAuthors(hist.before, b.id) # <<>>

\* A series call was cut and replayed.
C37_SeriesCut ==
    /\ Compared2 /\ hist.calls[1].fn = "ConsumeSeries" /\ db.book_series # {}
    /\ hist.before.book # {}

(* ------------------------- feeds without books ------------------------- *)

\* Event k is the successful fetch, by the function fn, of a feed that has
\* no book entry.
FetchedNoBooks(k, fn) ==
    /\ trace[k].ev = "fetch" /\ trace[k].ok /\ trace[k].by = fn
    /\ CollectBooks(Upstream(trace[k].url).entries, {}) = <<>>

\* The running call is flibustaSeries.sequence about to fetch a feed that has
\* no book entry.
AtEmptySeries ==
    /\ Running /\ Top.fn = "sequence" /\ Top.pc = "fetch"
    /\ CollectBooks(Upstream(Top.url).entries, {}) = <<>>

\* No event of the trace is a Consumer call or a Handler call for the feed u.
NeverConsumed(u) ==
    \A j \in Events :
        trace[j].ev \in {"ConsumeSeries", "ConsumeBooks"} => trace[j].url # u

\* C38, in states: after the successful fetch of a series feed without book
\* entries there is no ConsumeSeries call for that feed, and the next event is
\* no Consumer call and no Handler call; after the successful fetch of a books
\* page without book entries there is no ConsumeBooks call for that page, and
\* when the page has a next link the next event is the fetch of that link by
\* the books crawl.
EmptyFeedsNotConsumed ==
    \A k \in Events :
        /\ FetchedNoBooks(k, "sequence") =>
             /\ NeverConsumed(trace[k].url)
             /\ k + 1 <= Len(trace) =>
                  trace[k+1].ev \notin {"ConsumeSeries", "ConsumeBooks", "Handle",
                                        "consumerError"}
        /\ FetchedNoBooks(k, "books.crawl") =>
             /\ NeverConsumed(trace[k].url)
             /\ k + 1 <= Len(trace) =>
                  LET nx == getNext(Upstream(trace[k].url))
                  IN IF nx.found /\ nx.ok
                     THEN /\ trace[k+1].ev = "fetch" /\ trace[k+1].by = "books.crawl"
                          /\ trace[k+1].url = ResolveReference(trace[k].url, nx.url)
                     ELSE trace[k+1].ev \notin {"ConsumeBooks", "consumerError"}

\* C38, in steps: the call of sequence for a series feed without book entries
\* is over in one step that changes neither the store nor the fail table, and
\* it returns nil when the fetch succeeded; no step adds or removes the row
\* of the series that has no books.
EmptySeriesStep ==
    /\ AtEmptySeries =>
         /\ store' = store /\ failTable' = failTable /\ db' = db
         /\ stack' = Pop /\ ret'.set
         /\ trace'[Len(trace')].ok => ret'.err = NilErr
    /\ (VoidSeries \in seriesTable') = (VoidSeries \in seriesTable)

\* C38: a series feed fetched successfully that contains no book entry causes
\* no ConsumeSeries call and no Handler call, so the series row stored earlier
\* is left as it is; a books page without book entries causes no ConsumeBooks
\* call, and its next-page link is still followed.
C38_EmptyFeedsNotConsumed == []EmptyFeedsNotConsumed /\ [][EmptySeriesStep]_vars

\* Reached: the store held the series before the run, the run fetched the
\* series feed and found no book in it, fetched the books page without books
\* and then the page its next link names, and is over.
C38_Witness ==
    /\ status = "done" /\ run.no = 1
    /\ VoidSeries \in seriesTable
    /\ \E k \in Events : FetchedNoBooks(k, "sequence") /\ trace[k].feed.series # Nil
    /\ \E k \in Events :
         /\ FetchedNoBooks(k, "books.crawl")
         /\ getNext(Upstream(trace[k].url)).found
         /\ k + 1 <= Len(trace)
         /\ trace[k+1].ev = "fetch" /\ trace[k+1].ok

\* Reached: a resume run replays the recorded failure of the series feed
\* without books, and the row is deleted without any Consumer call.
C38_ReplayedEmptySeries ==
    /\ run.kind = "resume"
    /\ \E k \in Events :
         /\ FetchedNoBooks(k, "sequence")
         /\ RunAt(k) = run.no
         /\ k + 2 <= Len(trace)
         /\ trace[k+2].ev = "DeleteById"

(* ------------------------- every year is stored ------------------------ *)

\* The issued text was parsed to a year without a warning.
ParsedWell == unit.fn = "year" /\ unit.done /\ ~unit.out.warned

\* The call of ConsumeBooks that is returning holds the book of the parsed
\* year among the books it saves.
SavingIssued(c) ==
    /\ cons[c].pc = "return"
    /\ \E j \in 1..Len(cons[c].save) : cons[c].save[j] = Issued(K1)

\* C39: every year the extractor emits on a Book, any of 0..65535, is taken
\* by the column book.year: no call of ConsumeBooks that saves a book with a
\* year parsed well returns an error of Books.Save.
C39_EveryYearStored ==
    \A c \in Consumers :
        (ParsedWell /\ SavingIssued(c)) => cons[c].err = "nil"

\* Reached: the issued text "40000" was parsed to the year 40000 without a
\* warning, and the call of ConsumeBooks that was to save the book returns
\* the error of the store with no row of the batch written.
C39_Witness ==
    /\ ParsedWell /\ unit.issued = <<52, 48, 48, 48, 48>> /\ unit.out.year = 40000
    /\ SavingIssued(1)
    /\ cons[1].err = "smallint out of range"
    /\ Ids(db.book) = {}

\* The years the column takes and the years it refuses: a call that saves the
\* book of the parsed year returns nil, with the year in the row of the book,
\* when the year is at most 32767, and the error of the store otherwise.
C39_StoredUpToSmallint ==
    \A c \in Consumers :
        (ParsedWell /\ SavingIssued(c)) =>
            IF unit.out.year <= 32767
            THEN /\ cons[c].err = "nil"
                 /\ \E r \in db.book : r.id = K1.id /\ r.year = unit.out.year
            ELSE /\ cons[c].err = "smallint out of range"
                 /\ \A r \in db.book : r.year <= 32767

\* Reached: the year 32767 is stored.
C39_GreatestStored ==
    /\ ParsedWell /\ unit.out.year = 32767
    /\ SavingIssued(1) /\ cons[1].err = "nil"
    /\ \E r \in db.book : r.year = 32767

\* Reached: the year 65535, the greatest the extractor emits, is refused.
C39_GreatestRefused ==
    /\ ParsedWell /\ unit.out.year = 65535
    /\ SavingIssued(1) /\ cons[1].err = "smallint out of range"

====
